---- MODULE Spec2Model ----
\* Tool dispatch and formatting layer of the Azure DevOps MCP server
\* (server/src/index.ts) over the REST client (server/src/azure-devops-client.ts).
\*
\* One invocation is served at a time in the model: a handler action takes the
\* server from "idle" to "done", recording the client calls it made, the HTTP
\* requests the client issued, and the caller-visible response.
\*
\* Argument values are abstracted to what the handlers test:
\*   "undefined"  the key is absent from the argument object
\*   "falsy"      present with a falsy value of the declared type ('' / 0 / false)
\*   "empty"      present, an empty array (truthy in JavaScript)
\*   "truthy"     present with any other value of the declared type
EXTENDS Integers, Sequences, FiniteSets, TLC

\* Largest number of records in a backend list payload.
MaxRows == 2
\* Record / work item ids the backend may return (7 and 9 when MaxIds = 2).
MaxIds == 2

Range(s) == {s[i] : i \in DOMAIN s}

\* The tool registry: name, declared properties (name, type, schema default) and
\* the schema's required list, in registry order.
tools ==
  <<
    [name |-> "list_projects",
     properties |-> <<>>,
     required |-> <<>>],
    [name |-> "list_project_teams",
     properties |-> <<[name |-> "project", type |-> "string", dflt |-> ""], [name |-> "mine", type |-> "boolean", dflt |-> ""], [name |-> "top", type |-> "number", dflt |-> ""], [name |-> "skip", type |-> "number", dflt |-> ""]>>,
     required |-> <<"project">>],
    [name |-> "get_identity_ids",
     properties |-> <<[name |-> "searchFilter", type |-> "string", dflt |-> ""]>>,
     required |-> <<"searchFilter">>],
    [name |-> "query_work_items",
     properties |-> <<[name |-> "wiql", type |-> "string", dflt |-> ""]>>,
     required |-> <<"wiql">>],
    [name |-> "get_work_items_by_ids",
     properties |-> <<[name |-> "ids", type |-> "array", dflt |-> ""]>>,
     required |-> <<"ids">>],
    [name |-> "get_builds",
     properties |-> <<[name |-> "definitionId", type |-> "number", dflt |-> ""], [name |-> "top", type |-> "number", dflt |-> "10"]>>,
     required |-> <<>>],
    [name |-> "get_releases",
     properties |-> <<[name |-> "top", type |-> "number", dflt |-> "10"]>>,
     required |-> <<>>],
    [name |-> "create_work_item",
     properties |-> <<[name |-> "workItemType", type |-> "string", dflt |-> ""], [name |-> "title", type |-> "string", dflt |-> ""], [name |-> "description", type |-> "string", dflt |-> ""], [name |-> "additionalFields", type |-> "object", dflt |-> ""]>>,
     required |-> <<"workItemType", "title">>],
    [name |-> "update_work_item",
     properties |-> <<[name |-> "id", type |-> "number", dflt |-> ""], [name |-> "fields", type |-> "object", dflt |-> ""], [name |-> "comment", type |-> "string", dflt |-> ""]>>,
     required |-> <<"id", "fields">>],
    [name |-> "assign_work_item",
     properties |-> <<[name |-> "id", type |-> "number", dflt |-> ""], [name |-> "assignee", type |-> "string", dflt |-> ""], [name |-> "comment", type |-> "string", dflt |-> ""]>>,
     required |-> <<"id", "assignee">>],
    [name |-> "list_repositories",
     properties |-> <<[name |-> "project", type |-> "string", dflt |-> ""]>>,
     required |-> <<>>],
    [name |-> "list_branches",
     properties |-> <<[name |-> "repositoryId", type |-> "string", dflt |-> ""], [name |-> "project", type |-> "string", dflt |-> ""]>>,
     required |-> <<"repositoryId">>],
    [name |-> "list_pull_requests",
     properties |-> <<[name |-> "repositoryId", type |-> "string", dflt |-> ""], [name |-> "project", type |-> "string", dflt |-> ""], [name |-> "top", type |-> "number", dflt |-> "100"], [name |-> "status", type |-> "string", dflt |-> "active"]>>,
     required |-> <<>>],
    [name |-> "get_pull_request",
     properties |-> <<[name |-> "repositoryId", type |-> "string", dflt |-> ""], [name |-> "pullRequestId", type |-> "number", dflt |-> ""], [name |-> "project", type |-> "string", dflt |-> ""]>>,
     required |-> <<"repositoryId", "pullRequestId">>],
    [name |-> "search_code",
     properties |-> <<[name |-> "searchText", type |-> "string", dflt |-> ""], [name |-> "project", type |-> "string", dflt |-> ""], [name |-> "repository", type |-> "string", dflt |-> ""], [name |-> "top", type |-> "number", dflt |-> "5"]>>,
     required |-> <<"searchText">>],
    [name |-> "search_work_items",
     properties |-> <<[name |-> "searchText", type |-> "string", dflt |-> ""], [name |-> "project", type |-> "string", dflt |-> ""], [name |-> "top", type |-> "number", dflt |-> "10"]>>,
     required |-> <<"searchText">>],
    [name |-> "list_wikis",
     properties |-> <<[name |-> "project", type |-> "string", dflt |-> ""]>>,
     required |-> <<>>],
    [name |-> "get_wiki_page",
     properties |-> <<[name |-> "wikiIdentifier", type |-> "string", dflt |-> ""], [name |-> "project", type |-> "string", dflt |-> ""], [name |-> "path", type |-> "string", dflt |-> "/"]>>,
     required |-> <<"wikiIdentifier">>],
    [name |-> "list_team_iterations",
     properties |-> <<[name |-> "project", type |-> "string", dflt |-> ""], [name |-> "team", type |-> "string", dflt |-> ""]>>,
     required |-> <<"project", "team">>],
    [name |-> "list_test_plans",
     properties |-> <<[name |-> "project", type |-> "string", dflt |-> ""]>>,
     required |-> <<"project">>],
    [name |-> "get_current_user",
     properties |-> <<>>,
     required |-> <<>>],
    [name |-> "list_work_item_types",
     properties |-> <<[name |-> "project", type |-> "string", dflt |-> ""]>>,
     required |-> <<>>],
    [name |-> "list_iterations",
     properties |-> <<[name |-> "project", type |-> "string", dflt |-> ""]>>,
     required |-> <<>>],
    [name |-> "list_build_definitions",
     properties |-> <<[name |-> "project", type |-> "string", dflt |-> ""]>>,
     required |-> <<>>],
    [name |-> "list_release_definitions",
     properties |-> <<[name |-> "project", type |-> "string", dflt |-> ""]>>,
     required |-> <<>>],
    [name |-> "list_queries",
     properties |-> <<[name |-> "project", type |-> "string", dflt |-> ""]>>,
     required |-> <<>>],
    [name |-> "get_work_item_revisions",
     properties |-> <<[name |-> "id", type |-> "number", dflt |-> ""], [name |-> "project", type |-> "string", dflt |-> ""]>>,
     required |-> <<"id">>],
    [name |-> "get_work_item_links",
     properties |-> <<[name |-> "id", type |-> "number", dflt |-> ""], [name |-> "project", type |-> "string", dflt |-> ""]>>,
     required |-> <<"id">>],
    [name |-> "create_pull_request",
     properties |-> <<[name |-> "repositoryId", type |-> "string", dflt |-> ""], [name |-> "sourceBranch", type |-> "string", dflt |-> ""], [name |-> "targetBranch", type |-> "string", dflt |-> ""], [name |-> "title", type |-> "string", dflt |-> ""], [name |-> "description", type |-> "string", dflt |-> ""], [name |-> "project", type |-> "string", dflt |-> ""]>>,
     required |-> <<"repositoryId", "sourceBranch", "targetBranch", "title">>],
    [name |-> "list_commits",
     properties |-> <<[name |-> "repositoryId", type |-> "string", dflt |-> ""], [name |-> "project", type |-> "string", dflt |-> ""], [name |-> "top", type |-> "number", dflt |-> "10"]>>,
     required |-> <<"repositoryId">>],
    [name |-> "get_file_content",
     properties |-> <<[name |-> "repositoryId", type |-> "string", dflt |-> ""], [name |-> "path", type |-> "string", dflt |-> ""], [name |-> "project", type |-> "string", dflt |-> ""]>>,
     required |-> <<"repositoryId", "path">>],
    [name |-> "list_areas",
     properties |-> <<[name |-> "project", type |-> "string", dflt |-> ""]>>,
     required |-> <<>>],
    [name |-> "list_iteration_capacities",
     properties |-> <<[name |-> "project", type |-> "string", dflt |-> ""], [name |-> "team", type |-> "string", dflt |-> ""], [name |-> "iterationId", type |-> "string", dflt |-> ""]>>,
     required |-> <<"project", "team", "iterationId">>],
    [name |-> "list_work_item_categories",
     properties |-> <<[name |-> "project", type |-> "string", dflt |-> ""]>>,
     required |-> <<>>],
    [name |-> "list_dashboards",
     properties |-> <<[name |-> "project", type |-> "string", dflt |-> ""]>>,
     required |-> <<>>],
    [name |-> "list_pipelines",
     properties |-> <<[name |-> "project", type |-> "string", dflt |-> ""]>>,
     required |-> <<>>],
    [name |-> "list_test_suites",
     properties |-> <<[name |-> "project", type |-> "string", dflt |-> ""], [name |-> "planId", type |-> "number", dflt |-> ""]>>,
     required |-> <<"project", "planId">>],
    [name |-> "list_variable_groups",
     properties |-> <<[name |-> "project", type |-> "string", dflt |-> ""]>>,
     required |-> <<>>],
    [name |-> "list_service_endpoints",
     properties |-> <<[name |-> "project", type |-> "string", dflt |-> ""]>>,
     required |-> <<>>],
    [name |-> "list_tags",
     properties |-> <<[name |-> "project", type |-> "string", dflt |-> ""]>>,
     required |-> <<>>],
    [name |-> "list_team_members",
     properties |-> <<[name |-> "project", type |-> "string", dflt |-> ""], [name |-> "team", type |-> "string", dflt |-> ""]>>,
     required |-> <<"project", "team">>],
    [name |-> "list_boards",
     properties |-> <<[name |-> "project", type |-> "string", dflt |-> ""], [name |-> "team", type |-> "string", dflt |-> ""]>>,
     required |-> <<"project", "team">>],
    [name |-> "list_board_columns",
     properties |-> <<[name |-> "project", type |-> "string", dflt |-> ""], [name |-> "team", type |-> "string", dflt |-> ""], [name |-> "board", type |-> "string", dflt |-> ""]>>,
     required |-> <<"project", "team", "board">>],
    [name |-> "list_board_rows",
     properties |-> <<[name |-> "project", type |-> "string", dflt |-> ""], [name |-> "team", type |-> "string", dflt |-> ""], [name |-> "board", type |-> "string", dflt |-> ""]>>,
     required |-> <<"project", "team", "board">>],
    [name |-> "list_work_item_states",
     properties |-> <<[name |-> "project", type |-> "string", dflt |-> ""], [name |-> "workItemType", type |-> "string", dflt |-> ""]>>,
     required |-> <<"project", "workItemType">>],
    [name |-> "list_work_item_fields",
     properties |-> <<[name |-> "project", type |-> "string", dflt |-> ""]>>,
     required |-> <<>>],
    [name |-> "list_work_item_updates",
     properties |-> <<[name |-> "id", type |-> "number", dflt |-> ""], [name |-> "project", type |-> "string", dflt |-> ""]>>,
     required |-> <<"id">>],
    [name |-> "list_work_item_attachments",
     properties |-> <<[name |-> "id", type |-> "number", dflt |-> ""], [name |-> "project", type |-> "string", dflt |-> ""]>>,
     required |-> <<"id">>],
    [name |-> "list_work_item_comments",
     properties |-> <<[name |-> "id", type |-> "number", dflt |-> ""], [name |-> "project", type |-> "string", dflt |-> ""]>>,
     required |-> <<"id">>],
    [name |-> "list_work_item_relations",
     properties |-> <<[name |-> "id", type |-> "number", dflt |-> ""], [name |-> "project", type |-> "string", dflt |-> ""]>>,
     required |-> <<"id">>],
    [name |-> "list_work_item_query_results",
     properties |-> <<[name |-> "project", type |-> "string", dflt |-> ""], [name |-> "queryId", type |-> "string", dflt |-> ""]>>,
     required |-> <<"project", "queryId">>]
  >>

\* The CallTool switch: per case, the parameters tested with `!p` before the
\* client call, the message thrown when one is falsy, the client method and
\* its positional arguments (with the `|| literal` fallbacks of the case).
McpSwitch ==
  "list_projects" :> [checked |-> <<>>, msg |-> "",
      method |-> "getProjects", argv |-> <<>>] @@
  "list_project_teams" :> [checked |-> <<>>, msg |-> "",
      method |-> "getTeams", argv |-> <<[param |-> "project", dflt |-> ""], [param |-> "mine", dflt |-> ""], [param |-> "top", dflt |-> "100"], [param |-> "skip", dflt |-> "0"]>>] @@
  "get_identity_ids" :> [checked |-> <<"searchFilter">>, msg |-> "searchFilter argument is required",
      method |-> "searchIdentities", argv |-> <<[param |-> "searchFilter", dflt |-> ""]>>] @@
  "query_work_items" :> [checked |-> <<"wiql">>, msg |-> "wiql argument is required",
      method |-> "queryWorkItems", argv |-> <<[param |-> "wiql", dflt |-> ""]>>] @@
  "get_work_items_by_ids" :> [checked |-> <<"ids">>, msg |-> "ids argument must be an array of numbers",
      method |-> "getWorkItems", argv |-> <<[param |-> "ids", dflt |-> ""]>>] @@
  "get_builds" :> [checked |-> <<>>, msg |-> "",
      method |-> "getBuilds", argv |-> <<[param |-> "definitionId", dflt |-> ""], [param |-> "top", dflt |-> "10"]>>] @@
  "get_releases" :> [checked |-> <<>>, msg |-> "",
      method |-> "getReleases", argv |-> <<[param |-> "top", dflt |-> "10"]>>] @@
  "create_work_item" :> [checked |-> <<"workItemType", "title">>, msg |-> "workItemType and title are required",
      method |-> "createWorkItem", argv |-> <<[param |-> "workItemType", dflt |-> ""], [param |-> "title", dflt |-> ""], [param |-> "description", dflt |-> ""], [param |-> "additionalFields", dflt |-> ""]>>] @@
  "update_work_item" :> [checked |-> <<"id", "fields">>, msg |-> "id and fields are required",
      method |-> "updateWorkItem", argv |-> <<[param |-> "id", dflt |-> ""], [param |-> "fields", dflt |-> ""], [param |-> "comment", dflt |-> ""]>>] @@
  "assign_work_item" :> [checked |-> <<"id", "assignee">>, msg |-> "id and assignee are required",
      method |-> "assignWorkItem", argv |-> <<[param |-> "id", dflt |-> ""], [param |-> "assignee", dflt |-> ""], [param |-> "comment", dflt |-> ""]>>] @@
  "list_repositories" :> [checked |-> <<>>, msg |-> "",
      method |-> "getRepositories", argv |-> <<[param |-> "project", dflt |-> ""]>>] @@
  "list_branches" :> [checked |-> <<>>, msg |-> "",
      method |-> "getBranches", argv |-> <<[param |-> "repositoryId", dflt |-> ""], [param |-> "project", dflt |-> ""]>>] @@
  "list_pull_requests" :> [checked |-> <<>>, msg |-> "",
      method |-> "getPullRequests", argv |-> <<[param |-> "repositoryId", dflt |-> ""], [param |-> "project", dflt |-> ""], [param |-> "top", dflt |-> "100"], [param |-> "status", dflt |-> "active"]>>] @@
  "get_pull_request" :> [checked |-> <<>>, msg |-> "",
      method |-> "getPullRequestById", argv |-> <<[param |-> "repositoryId", dflt |-> ""], [param |-> "pullRequestId", dflt |-> ""], [param |-> "project", dflt |-> ""]>>] @@
  "search_code" :> [checked |-> <<>>, msg |-> "",
      method |-> "searchCode", argv |-> <<[param |-> "searchText", dflt |-> ""], [param |-> "project", dflt |-> ""], [param |-> "repository", dflt |-> ""], [param |-> "top", dflt |-> "5"]>>] @@
  "search_work_items" :> [checked |-> <<>>, msg |-> "",
      method |-> "searchWorkItems", argv |-> <<[param |-> "searchText", dflt |-> ""], [param |-> "project", dflt |-> ""], [param |-> "top", dflt |-> "10"]>>] @@
  "list_wikis" :> [checked |-> <<>>, msg |-> "",
      method |-> "getWikis", argv |-> <<[param |-> "project", dflt |-> ""]>>] @@
  "get_wiki_page" :> [checked |-> <<>>, msg |-> "",
      method |-> "getWikiPageContent", argv |-> <<[param |-> "wikiIdentifier", dflt |-> ""], [param |-> "project", dflt |-> ""], [param |-> "path", dflt |-> "/"]>>] @@
  "list_team_iterations" :> [checked |-> <<>>, msg |-> "",
      method |-> "getTeamIterations", argv |-> <<[param |-> "project", dflt |-> ""], [param |-> "team", dflt |-> ""]>>] @@
  "list_test_plans" :> [checked |-> <<>>, msg |-> "",
      method |-> "getTestPlans", argv |-> <<[param |-> "project", dflt |-> ""]>>] @@
  "get_current_user" :> [checked |-> <<>>, msg |-> "",
      method |-> "getCurrentUser", argv |-> <<>>] @@
  "list_work_item_types" :> [checked |-> <<>>, msg |-> "",
      method |-> "getWorkItemTypes", argv |-> <<[param |-> "project", dflt |-> ""]>>] @@
  "list_iterations" :> [checked |-> <<>>, msg |-> "",
      method |-> "getIterations", argv |-> <<[param |-> "project", dflt |-> ""]>>] @@
  "list_build_definitions" :> [checked |-> <<>>, msg |-> "",
      method |-> "getBuildDefinitions", argv |-> <<[param |-> "project", dflt |-> ""]>>] @@
  "list_release_definitions" :> [checked |-> <<>>, msg |-> "",
      method |-> "getReleaseDefinitions", argv |-> <<[param |-> "project", dflt |-> ""]>>] @@
  "list_queries" :> [checked |-> <<>>, msg |-> "",
      method |-> "getQueries", argv |-> <<[param |-> "project", dflt |-> ""]>>] @@
  "get_work_item_revisions" :> [checked |-> <<"id">>, msg |-> "id argument is required",
      method |-> "getWorkItemRevisions", argv |-> <<[param |-> "id", dflt |-> ""], [param |-> "project", dflt |-> ""]>>] @@
  "get_work_item_links" :> [checked |-> <<"id">>, msg |-> "id argument is required",
      method |-> "getWorkItemLinks", argv |-> <<[param |-> "id", dflt |-> ""], [param |-> "project", dflt |-> ""]>>] @@
  "create_pull_request" :> [checked |-> <<"repositoryId", "sourceBranch", "targetBranch", "title">>, msg |-> "repositoryId, sourceBranch, targetBranch, and title are required",
      method |-> "createPullRequest", argv |-> <<[param |-> "repositoryId", dflt |-> ""], [param |-> "sourceBranch", dflt |-> ""], [param |-> "targetBranch", dflt |-> ""], [param |-> "title", dflt |-> ""], [param |-> "description", dflt |-> ""], [param |-> "project", dflt |-> ""]>>] @@
  "list_commits" :> [checked |-> <<"repositoryId">>, msg |-> "repositoryId argument is required",
      method |-> "getCommits", argv |-> <<[param |-> "repositoryId", dflt |-> ""], [param |-> "project", dflt |-> ""], [param |-> "top", dflt |-> "10"]>>] @@
  "get_file_content" :> [checked |-> <<"repositoryId", "path">>, msg |-> "repositoryId and path are required",
      method |-> "getFileContent", argv |-> <<[param |-> "repositoryId", dflt |-> ""], [param |-> "path", dflt |-> ""], [param |-> "project", dflt |-> ""]>>] @@
  "list_areas" :> [checked |-> <<>>, msg |-> "",
      method |-> "getAreas", argv |-> <<[param |-> "project", dflt |-> ""]>>] @@
  "list_iteration_capacities" :> [checked |-> <<"project", "team", "iterationId">>, msg |-> "project, team, and iterationId are required",
      method |-> "getIterationCapacities", argv |-> <<[param |-> "project", dflt |-> ""], [param |-> "team", dflt |-> ""], [param |-> "iterationId", dflt |-> ""]>>] @@
  "list_work_item_categories" :> [checked |-> <<>>, msg |-> "",
      method |-> "getWorkItemCategories", argv |-> <<[param |-> "project", dflt |-> ""]>>] @@
  "list_dashboards" :> [checked |-> <<>>, msg |-> "",
      method |-> "getDashboards", argv |-> <<[param |-> "project", dflt |-> ""]>>] @@
  "list_pipelines" :> [checked |-> <<>>, msg |-> "",
      method |-> "getPipelines", argv |-> <<[param |-> "project", dflt |-> ""]>>] @@
  "list_test_suites" :> [checked |-> <<"project", "planId">>, msg |-> "project and planId are required",
      method |-> "getTestSuites", argv |-> <<[param |-> "project", dflt |-> ""], [param |-> "planId", dflt |-> ""]>>] @@
  "list_variable_groups" :> [checked |-> <<>>, msg |-> "",
      method |-> "getVariableGroups", argv |-> <<[param |-> "project", dflt |-> ""]>>] @@
  "list_service_endpoints" :> [checked |-> <<>>, msg |-> "",
      method |-> "getServiceEndpoints", argv |-> <<[param |-> "project", dflt |-> ""]>>] @@
  "list_tags" :> [checked |-> <<>>, msg |-> "",
      method |-> "getTags", argv |-> <<[param |-> "project", dflt |-> ""]>>] @@
  "list_team_members" :> [checked |-> <<"project", "team">>, msg |-> "project and team are required",
      method |-> "getTeamMembers", argv |-> <<[param |-> "project", dflt |-> ""], [param |-> "team", dflt |-> ""]>>] @@
  "list_boards" :> [checked |-> <<"project", "team">>, msg |-> "project and team are required",
      method |-> "getBoards", argv |-> <<[param |-> "project", dflt |-> ""], [param |-> "team", dflt |-> ""]>>] @@
  "list_board_columns" :> [checked |-> <<"project", "team", "board">>, msg |-> "project, team, and board are required",
      method |-> "getBoardColumns", argv |-> <<[param |-> "project", dflt |-> ""], [param |-> "team", dflt |-> ""], [param |-> "board", dflt |-> ""]>>] @@
  "list_board_rows" :> [checked |-> <<"project", "team", "board">>, msg |-> "project, team, and board are required",
      method |-> "getBoardRows", argv |-> <<[param |-> "project", dflt |-> ""], [param |-> "team", dflt |-> ""], [param |-> "board", dflt |-> ""]>>] @@
  "list_work_item_states" :> [checked |-> <<"project", "workItemType">>, msg |-> "project and workItemType are required",
      method |-> "getWorkItemStates", argv |-> <<[param |-> "project", dflt |-> ""], [param |-> "workItemType", dflt |-> ""]>>] @@
  "list_work_item_fields" :> [checked |-> <<>>, msg |-> "",
      method |-> "getWorkItemFields", argv |-> <<[param |-> "project", dflt |-> ""]>>] @@
  "list_work_item_updates" :> [checked |-> <<"id">>, msg |-> "id is required",
      method |-> "getWorkItemUpdates", argv |-> <<[param |-> "id", dflt |-> ""], [param |-> "project", dflt |-> ""]>>] @@
  "list_work_item_attachments" :> [checked |-> <<"id">>, msg |-> "id is required",
      method |-> "getWorkItemAttachments", argv |-> <<[param |-> "id", dflt |-> ""], [param |-> "project", dflt |-> ""]>>] @@
  "list_work_item_comments" :> [checked |-> <<"id">>, msg |-> "id is required",
      method |-> "getWorkItemComments", argv |-> <<[param |-> "id", dflt |-> ""], [param |-> "project", dflt |-> ""]>>] @@
  "list_work_item_relations" :> [checked |-> <<"id">>, msg |-> "id is required",
      method |-> "getWorkItemRelations", argv |-> <<[param |-> "id", dflt |-> ""], [param |-> "project", dflt |-> ""]>>] @@
  "list_work_item_query_results" :> [checked |-> <<"project", "queryId">>, msg |-> "project and queryId are required",
      method |-> "getQueryResults", argv |-> <<[param |-> "project", dflt |-> ""], [param |-> "queryId", dflt |-> ""]>>]

\* The POST /api/tools/:name switch: per case, the client method and the positional
\* arguments read from the argument object.
HttpSwitch ==
  "list_projects" :> [method |-> "getProjects", argv |-> <<>>] @@
  "list_project_teams" :> [method |-> "getTeams", argv |-> <<[param |-> "project", dflt |-> ""], [param |-> "mine", dflt |-> ""], [param |-> "top", dflt |-> ""], [param |-> "skip", dflt |-> ""]>>] @@
  "get_identity_ids" :> [method |-> "searchIdentities", argv |-> <<[param |-> "searchFilter", dflt |-> ""]>>] @@
  "query_work_items" :> [method |-> "queryWorkItems", argv |-> <<[param |-> "wiql", dflt |-> ""]>>] @@
  "get_work_items_by_ids" :> [method |-> "getWorkItems", argv |-> <<[param |-> "ids", dflt |-> ""]>>] @@
  "get_builds" :> [method |-> "getBuilds", argv |-> <<[param |-> "definitionId", dflt |-> ""], [param |-> "top", dflt |-> ""]>>] @@
  "get_releases" :> [method |-> "getReleases", argv |-> <<[param |-> "top", dflt |-> ""]>>] @@
  "create_work_item" :> [method |-> "createWorkItem", argv |-> <<[param |-> "workItemType", dflt |-> ""], [param |-> "title", dflt |-> ""], [param |-> "description", dflt |-> ""], [param |-> "additionalFields", dflt |-> ""]>>] @@
  "update_work_item" :> [method |-> "updateWorkItem", argv |-> <<[param |-> "id", dflt |-> ""], [param |-> "fields", dflt |-> ""], [param |-> "comment", dflt |-> ""]>>] @@
  "assign_work_item" :> [method |-> "assignWorkItem", argv |-> <<[param |-> "id", dflt |-> ""], [param |-> "assignee", dflt |-> ""], [param |-> "comment", dflt |-> ""]>>] @@
  "list_repositories" :> [method |-> "getRepositories", argv |-> <<[param |-> "project", dflt |-> ""]>>] @@
  "list_branches" :> [method |-> "getBranches", argv |-> <<[param |-> "repositoryId", dflt |-> ""], [param |-> "project", dflt |-> ""]>>] @@
  "list_pull_requests" :> [method |-> "getPullRequests", argv |-> <<[param |-> "repositoryId", dflt |-> ""], [param |-> "project", dflt |-> ""], [param |-> "top", dflt |-> ""], [param |-> "status", dflt |-> ""]>>] @@
  "get_pull_request" :> [method |-> "getPullRequestById", argv |-> <<[param |-> "repositoryId", dflt |-> ""], [param |-> "pullRequestId", dflt |-> ""], [param |-> "project", dflt |-> ""]>>] @@
  "search_code" :> [method |-> "searchCode", argv |-> <<[param |-> "searchText", dflt |-> ""], [param |-> "project", dflt |-> ""], [param |-> "repository", dflt |-> ""], [param |-> "top", dflt |-> ""]>>] @@
  "search_work_items" :> [method |-> "searchWorkItems", argv |-> <<[param |-> "searchText", dflt |-> ""], [param |-> "project", dflt |-> ""], [param |-> "top", dflt |-> ""]>>] @@
  "list_wikis" :> [method |-> "getWikis", argv |-> <<[param |-> "project", dflt |-> ""]>>] @@
  "get_wiki_page" :> [method |-> "getWikiPageContent", argv |-> <<[param |-> "wikiIdentifier", dflt |-> ""], [param |-> "project", dflt |-> ""], [param |-> "path", dflt |-> ""]>>] @@
  "list_team_iterations" :> [method |-> "getTeamIterations", argv |-> <<[param |-> "project", dflt |-> ""], [param |-> "team", dflt |-> ""]>>] @@
  "list_test_plans" :> [method |-> "getTestPlans", argv |-> <<[param |-> "project", dflt |-> ""]>>] @@
  "get_current_user" :> [method |-> "getCurrentUser", argv |-> <<>>] @@
  "list_work_item_types" :> [method |-> "getWorkItemTypes", argv |-> <<[param |-> "project", dflt |-> ""]>>] @@
  "list_iterations" :> [method |-> "getIterations", argv |-> <<[param |-> "project", dflt |-> ""]>>] @@
  "list_build_definitions" :> [method |-> "getBuildDefinitions", argv |-> <<[param |-> "project", dflt |-> ""]>>] @@
  "list_release_definitions" :> [method |-> "getReleaseDefinitions", argv |-> <<[param |-> "project", dflt |-> ""]>>] @@
  "list_queries" :> [method |-> "getQueries", argv |-> <<[param |-> "project", dflt |-> ""]>>] @@
  "get_work_item_revisions" :> [method |-> "getWorkItemRevisions", argv |-> <<[param |-> "id", dflt |-> ""], [param |-> "project", dflt |-> ""]>>] @@
  "get_work_item_links" :> [method |-> "getWorkItemLinks", argv |-> <<[param |-> "id", dflt |-> ""], [param |-> "project", dflt |-> ""]>>] @@
  "create_pull_request" :> [method |-> "createPullRequest", argv |-> <<[param |-> "repositoryId", dflt |-> ""], [param |-> "sourceBranch", dflt |-> ""], [param |-> "targetBranch", dflt |-> ""], [param |-> "title", dflt |-> ""], [param |-> "description", dflt |-> ""], [param |-> "project", dflt |-> ""]>>] @@
  "list_commits" :> [method |-> "getCommits", argv |-> <<[param |-> "repositoryId", dflt |-> ""], [param |-> "project", dflt |-> ""], [param |-> "top", dflt |-> ""]>>] @@
  "get_file_content" :> [method |-> "getFileContent", argv |-> <<[param |-> "repositoryId", dflt |-> ""], [param |-> "path", dflt |-> ""], [param |-> "project", dflt |-> ""]>>] @@
  "list_areas" :> [method |-> "getAreas", argv |-> <<[param |-> "project", dflt |-> ""]>>] @@
  "list_iteration_capacities" :> [method |-> "getIterationCapacities", argv |-> <<[param |-> "project", dflt |-> ""], [param |-> "team", dflt |-> ""], [param |-> "iterationId", dflt |-> ""]>>] @@
  "list_work_item_categories" :> [method |-> "getWorkItemCategories", argv |-> <<[param |-> "project", dflt |-> ""]>>] @@
  "list_dashboards" :> [method |-> "getDashboards", argv |-> <<[param |-> "project", dflt |-> ""]>>] @@
  "list_pipelines" :> [method |-> "getPipelines", argv |-> <<[param |-> "project", dflt |-> ""]>>] @@
  "list_test_suites" :> [method |-> "getTestSuites", argv |-> <<[param |-> "project", dflt |-> ""], [param |-> "planId", dflt |-> ""]>>] @@
  "list_variable_groups" :> [method |-> "getVariableGroups", argv |-> <<[param |-> "project", dflt |-> ""]>>] @@
  "list_service_endpoints" :> [method |-> "getServiceEndpoints", argv |-> <<[param |-> "project", dflt |-> ""]>>] @@
  "list_tags" :> [method |-> "getTags", argv |-> <<[param |-> "project", dflt |-> ""]>>] @@
  "list_team_members" :> [method |-> "getTeamMembers", argv |-> <<[param |-> "project", dflt |-> ""], [param |-> "team", dflt |-> ""]>>] @@
  "list_boards" :> [method |-> "getBoards", argv |-> <<[param |-> "project", dflt |-> ""], [param |-> "team", dflt |-> ""]>>] @@
  "list_board_columns" :> [method |-> "getBoardColumns", argv |-> <<[param |-> "project", dflt |-> ""], [param |-> "team", dflt |-> ""], [param |-> "board", dflt |-> ""]>>] @@
  "list_board_rows" :> [method |-> "getBoardRows", argv |-> <<[param |-> "project", dflt |-> ""], [param |-> "team", dflt |-> ""], [param |-> "board", dflt |-> ""]>>] @@
  "list_work_item_states" :> [method |-> "getWorkItemStates", argv |-> <<[param |-> "project", dflt |-> ""], [param |-> "workItemType", dflt |-> ""]>>] @@
  "list_work_item_fields" :> [method |-> "getWorkItemFields", argv |-> <<[param |-> "project", dflt |-> ""]>>] @@
  "list_work_item_updates" :> [method |-> "getWorkItemUpdates", argv |-> <<[param |-> "id", dflt |-> ""], [param |-> "project", dflt |-> ""]>>] @@
  "list_work_item_attachments" :> [method |-> "getWorkItemAttachments", argv |-> <<[param |-> "id", dflt |-> ""], [param |-> "project", dflt |-> ""]>>] @@
  "list_work_item_comments" :> [method |-> "getWorkItemComments", argv |-> <<[param |-> "id", dflt |-> ""], [param |-> "project", dflt |-> ""]>>] @@
  "list_work_item_relations" :> [method |-> "getWorkItemRelations", argv |-> <<[param |-> "id", dflt |-> ""], [param |-> "project", dflt |-> ""]>>] @@
  "list_work_item_query_results" :> [method |-> "getQueryResults", argv |-> <<[param |-> "project", dflt |-> ""], [param |-> "queryId", dflt |-> ""]>>]

\* The /api/chat function-call switch: per case, the client method and the positional
\* arguments read from the argument object.
ChatSwitch ==
  "list_projects" :> [method |-> "getProjects", argv |-> <<>>] @@
  "list_project_teams" :> [method |-> "getTeams", argv |-> <<[param |-> "project", dflt |-> ""], [param |-> "mine", dflt |-> ""], [param |-> "top", dflt |-> ""], [param |-> "skip", dflt |-> ""]>>] @@
  "get_identity_ids" :> [method |-> "searchIdentities", argv |-> <<[param |-> "searchFilter", dflt |-> ""]>>] @@
  "query_work_items" :> [method |-> "queryWorkItems", argv |-> <<[param |-> "wiql", dflt |-> ""]>>] @@
  "get_work_items_by_ids" :> [method |-> "getWorkItems", argv |-> <<[param |-> "ids", dflt |-> ""]>>] @@
  "get_builds" :> [method |-> "getBuilds", argv |-> <<[param |-> "definitionId", dflt |-> ""], [param |-> "top", dflt |-> ""]>>] @@
  "get_releases" :> [method |-> "getReleases", argv |-> <<[param |-> "top", dflt |-> ""]>>] @@
  "create_work_item" :> [method |-> "createWorkItem", argv |-> <<[param |-> "workItemType", dflt |-> ""], [param |-> "title", dflt |-> ""], [param |-> "description", dflt |-> ""], [param |-> "additionalFields", dflt |-> ""]>>] @@
  "update_work_item" :> [method |-> "updateWorkItem", argv |-> <<[param |-> "id", dflt |-> ""], [param |-> "fields", dflt |-> "{}"], [param |-> "comment", dflt |-> ""]>>] @@
  "assign_work_item" :> [method |-> "assignWorkItem", argv |-> <<[param |-> "id", dflt |-> ""], [param |-> "assignee", dflt |-> ""], [param |-> "comment", dflt |-> ""]>>] @@
  "list_repositories" :> [method |-> "getRepositories", argv |-> <<[param |-> "project", dflt |-> ""]>>] @@
  "list_branches" :> [method |-> "getBranches", argv |-> <<[param |-> "repositoryId", dflt |-> ""], [param |-> "project", dflt |-> ""]>>] @@
  "list_pull_requests" :> [method |-> "getPullRequests", argv |-> <<[param |-> "repositoryId", dflt |-> ""], [param |-> "project", dflt |-> ""], [param |-> "top", dflt |-> ""], [param |-> "status", dflt |-> ""]>>] @@
  "get_pull_request" :> [method |-> "getPullRequestById", argv |-> <<[param |-> "repositoryId", dflt |-> ""], [param |-> "pullRequestId", dflt |-> ""], [param |-> "project", dflt |-> ""]>>] @@
  "search_code" :> [method |-> "searchCode", argv |-> <<[param |-> "searchText", dflt |-> ""], [param |-> "project", dflt |-> ""], [param |-> "repository", dflt |-> ""], [param |-> "top", dflt |-> ""]>>] @@
  "search_work_items" :> [method |-> "searchWorkItems", argv |-> <<[param |-> "searchText", dflt |-> ""], [param |-> "project", dflt |-> ""], [param |-> "top", dflt |-> ""]>>] @@
  "list_wikis" :> [method |-> "getWikis", argv |-> <<[param |-> "project", dflt |-> ""]>>] @@
  "get_wiki_page" :> [method |-> "getWikiPageContent", argv |-> <<[param |-> "wikiIdentifier", dflt |-> ""], [param |-> "project", dflt |-> ""], [param |-> "path", dflt |-> ""]>>] @@
  "list_team_iterations" :> [method |-> "getTeamIterations", argv |-> <<[param |-> "project", dflt |-> ""], [param |-> "team", dflt |-> ""]>>] @@
  "list_test_plans" :> [method |-> "getTestPlans", argv |-> <<[param |-> "project", dflt |-> ""]>>] @@
  "get_current_user" :> [method |-> "getCurrentUser", argv |-> <<>>] @@
  "list_work_item_types" :> [method |-> "getWorkItemTypes", argv |-> <<[param |-> "project", dflt |-> ""]>>] @@
  "list_iterations" :> [method |-> "getIterations", argv |-> <<[param |-> "project", dflt |-> ""]>>] @@
  "list_build_definitions" :> [method |-> "getBuildDefinitions", argv |-> <<[param |-> "project", dflt |-> ""]>>] @@
  "list_release_definitions" :> [method |-> "getReleaseDefinitions", argv |-> <<[param |-> "project", dflt |-> ""]>>] @@
  "list_queries" :> [method |-> "getQueries", argv |-> <<[param |-> "project", dflt |-> ""]>>] @@
  "get_work_item_revisions" :> [method |-> "getWorkItemRevisions", argv |-> <<[param |-> "id", dflt |-> ""], [param |-> "project", dflt |-> ""]>>] @@
  "get_work_item_links" :> [method |-> "getWorkItemLinks", argv |-> <<[param |-> "id", dflt |-> ""], [param |-> "project", dflt |-> ""]>>] @@
  "create_pull_request" :> [method |-> "createPullRequest", argv |-> <<[param |-> "repositoryId", dflt |-> ""], [param |-> "sourceBranch", dflt |-> ""], [param |-> "targetBranch", dflt |-> ""], [param |-> "title", dflt |-> ""], [param |-> "description", dflt |-> ""], [param |-> "project", dflt |-> ""]>>] @@
  "list_commits" :> [method |-> "getCommits", argv |-> <<[param |-> "repositoryId", dflt |-> ""], [param |-> "project", dflt |-> ""], [param |-> "top", dflt |-> ""]>>] @@
  "get_file_content" :> [method |-> "getFileContent", argv |-> <<[param |-> "repositoryId", dflt |-> ""], [param |-> "path", dflt |-> ""], [param |-> "project", dflt |-> ""]>>] @@
  "list_areas" :> [method |-> "getAreas", argv |-> <<[param |-> "project", dflt |-> ""]>>] @@
  "list_iteration_capacities" :> [method |-> "getIterationCapacities", argv |-> <<[param |-> "project", dflt |-> ""], [param |-> "team", dflt |-> ""], [param |-> "iterationId", dflt |-> ""]>>] @@
  "list_work_item_categories" :> [method |-> "getWorkItemCategories", argv |-> <<[param |-> "project", dflt |-> ""]>>] @@
  "list_dashboards" :> [method |-> "getDashboards", argv |-> <<[param |-> "project", dflt |-> ""]>>] @@
  "list_pipelines" :> [method |-> "getPipelines", argv |-> <<[param |-> "project", dflt |-> ""]>>] @@
  "list_test_suites" :> [method |-> "getTestSuites", argv |-> <<[param |-> "project", dflt |-> ""], [param |-> "planId", dflt |-> ""]>>] @@
  "list_variable_groups" :> [method |-> "getVariableGroups", argv |-> <<[param |-> "project", dflt |-> ""]>>] @@
  "list_service_endpoints" :> [method |-> "getServiceEndpoints", argv |-> <<[param |-> "project", dflt |-> ""]>>] @@
  "list_tags" :> [method |-> "getTags", argv |-> <<[param |-> "project", dflt |-> ""]>>] @@
  "list_team_members" :> [method |-> "getTeamMembers", argv |-> <<[param |-> "project", dflt |-> ""], [param |-> "team", dflt |-> ""]>>] @@
  "list_boards" :> [method |-> "getBoards", argv |-> <<[param |-> "project", dflt |-> ""], [param |-> "team", dflt |-> ""]>>] @@
  "list_board_columns" :> [method |-> "getBoardColumns", argv |-> <<[param |-> "project", dflt |-> ""], [param |-> "team", dflt |-> ""], [param |-> "board", dflt |-> ""]>>] @@
  "list_board_rows" :> [method |-> "getBoardRows", argv |-> <<[param |-> "project", dflt |-> ""], [param |-> "team", dflt |-> ""], [param |-> "board", dflt |-> ""]>>] @@
  "list_work_item_states" :> [method |-> "getWorkItemStates", argv |-> <<[param |-> "project", dflt |-> ""], [param |-> "workItemType", dflt |-> ""]>>] @@
  "list_work_item_fields" :> [method |-> "getWorkItemFields", argv |-> <<[param |-> "project", dflt |-> ""]>>] @@
  "list_work_item_updates" :> [method |-> "getWorkItemUpdates", argv |-> <<[param |-> "id", dflt |-> ""], [param |-> "project", dflt |-> ""]>>] @@
  "list_work_item_attachments" :> [method |-> "getWorkItemAttachments", argv |-> <<[param |-> "id", dflt |-> ""], [param |-> "project", dflt |-> ""]>>] @@
  "list_work_item_comments" :> [method |-> "getWorkItemComments", argv |-> <<[param |-> "id", dflt |-> ""], [param |-> "project", dflt |-> ""]>>] @@
  "list_work_item_relations" :> [method |-> "getWorkItemRelations", argv |-> <<[param |-> "id", dflt |-> ""], [param |-> "project", dflt |-> ""]>>] @@
  "list_work_item_query_results" :> [method |-> "getQueryResults", argv |-> <<[param |-> "project", dflt |-> ""], [param |-> "queryId", dflt |-> ""]>>]

\* McpListTemplate: the list-shaped templates of the mcp formatter: the fixed message for an
\* empty sequence, and the title and column header of the table otherwise.
McpListTemplate ==
  "list_projects" :> [empty |-> "No projects found.", title |-> "Projects",
      columns |-> "| ID | Name | Description | URL |"] @@
  "list_project_teams" :> [empty |-> "No teams found.", title |-> "Teams",
      columns |-> "| ID | Name | Description | Project |"] @@
  "get_identity_ids" :> [empty |-> "No identities found.", title |-> "Identities",
      columns |-> "| Local ID | Display Name | Unique Name | Subject Descriptor |"] @@
  "query_work_items" :> [empty |-> "No work items match the query.", title |-> "Work Items",
      columns |-> "| ID | Title | State | Assigned To | Type |"] @@
  "get_work_items_by_ids" :> [empty |-> "No work items found with those IDs.", title |-> "Work Items",
      columns |-> "| ID | Title | State | Assigned To | Type |"] @@
  "get_builds" :> [empty |-> "No builds found.", title |-> "Builds",
      columns |-> "| ID | Build Number | Status | Result | Queue Time | Branch |"] @@
  "get_releases" :> [empty |-> "No releases found.", title |-> "Releases",
      columns |-> "| ID | Name | Status | Created | Modified |"] @@
  "list_repositories" :> [empty |-> "No repositories found.", title |-> "Repositories",
      columns |-> "| ID | Name | Status | Fork | URL |"] @@
  "list_branches" :> [empty |-> "No branches found.", title |-> "Branches",
      columns |-> "| Name | Commit | Creator |"] @@
  "list_pull_requests" :> [empty |-> "No pull requests found.", title |-> "Pull Requests",
      columns |-> "| ID | Title | Status | Created By | Created |"] @@
  "search_code" :> [empty |-> "No code search results found.", title |-> "Code Search Results",
      columns |-> "| Project | Repository | Path | Matches |"] @@
  "search_work_items" :> [empty |-> "No work item search results found.", title |-> "Work Item Search Results",
      columns |-> "| ID | Title | State | Type |"] @@
  "list_wikis" :> [empty |-> "No wikis found.", title |-> "Wikis",
      columns |-> "| ID | Name | Type | Project ID |"] @@
  "list_team_iterations" :> [empty |-> "No iterations found for this team.", title |-> "Iterations",
      columns |-> "| ID | Name | Path | Dates |"] @@
  "list_test_plans" :> [empty |-> "No test plans found.", title |-> "Test Plans",
      columns |-> "| ID | Name | Description | Area Path | Iteration |"] @@
  "list_work_item_types" :> [empty |-> "No work item types found.", title |-> "Work Item Types",
      columns |-> "| Name | Reference Name | Description |"] @@
  "list_iterations" :> [empty |-> "No iterations found.", title |-> "Iterations",
      columns |-> "| ID | Name | Path | Dates |"] @@
  "list_build_definitions" :> [empty |-> "No build definitions found.", title |-> "Build Definitions",
      columns |-> "| ID | Name | Path | Queue Status |"] @@
  "list_release_definitions" :> [empty |-> "No release definitions found.", title |-> "Release Definitions",
      columns |-> "| ID | Name | Path | Release Name Format |"] @@
  "list_queries" :> [empty |-> "No queries found.", title |-> "Queries",
      columns |-> "| ID | Name | Path | Type |"] @@
  "get_work_item_revisions" :> [empty |-> "No revisions found for this work item.", title |-> "Work Item Revisions",
      columns |-> "| Rev | Changed Date | Changed By | State |"] @@
  "get_work_item_links" :> [empty |-> "No links found for this work item.", title |-> "Work Item Links",
      columns |-> "| Relation | URL | Name |"] @@
  "list_commits" :> [empty |-> "No commits found.", title |-> "Commits",
      columns |-> "| Commit | Author | Message | Date |"] @@
  "list_areas" :> [empty |-> "No areas found.", title |-> "Areas",
      columns |-> "| ID | Name | Path | Type |"] @@
  "list_iteration_capacities" :> [empty |-> "No capacities found for this iteration.", title |-> "Iteration Capacities",
      columns |-> "| Team Member | Activities | Days Off |"] @@
  "list_work_item_categories" :> [empty |-> "No work item categories found.", title |-> "Work Item Categories",
      columns |-> "| Name | Reference Name | Default Work Item Type |"] @@
  "list_dashboards" :> [empty |-> "No dashboards found.", title |-> "Dashboards",
      columns |-> "| ID | Name | Description | Modified |"] @@
  "list_pipelines" :> [empty |-> "No pipelines found.", title |-> "Pipelines",
      columns |-> "| ID | Name | Folder | Revision |"] @@
  "list_test_suites" :> [empty |-> "No test suites found.", title |-> "Test Suites",
      columns |-> "| ID | Name | Test Cases | Type |"] @@
  "list_variable_groups" :> [empty |-> "No variable groups found.", title |-> "Variable Groups",
      columns |-> "| ID | Name | Description | Project |"] @@
  "list_service_endpoints" :> [empty |-> "No service endpoints found.", title |-> "Service Endpoints",
      columns |-> "| ID | Name | Type | Status |"] @@
  "list_tags" :> [empty |-> "No tags found.", title |-> "Tags",
      columns |-> "| ID | Name | Status |"] @@
  "list_team_members" :> [empty |-> "No team members found.", title |-> "Team Members",
      columns |-> "| Display Name | Unique Name | ID |"] @@
  "list_boards" :> [empty |-> "No boards found.", title |-> "Boards",
      columns |-> "| ID | Name | Description |"] @@
  "list_board_columns" :> [empty |-> "No board columns found.", title |-> "Board Columns",
      columns |-> "| ID | Name | Item Limit | Type |"] @@
  "list_board_rows" :> [empty |-> "No board rows found.", title |-> "Board Rows",
      columns |-> "| ID | Name | Rank |"] @@
  "list_work_item_states" :> [empty |-> "No work item states found.", title |-> "Work Item States",
      columns |-> "| Name | Category | Color | Order |"] @@
  "list_work_item_fields" :> [empty |-> "No work item fields found.", title |-> "Work Item Fields",
      columns |-> "| Reference Name | Name | Type | Access |"] @@
  "list_work_item_updates" :> [empty |-> "No updates found for this work item.", title |-> "Work Item Updates",
      columns |-> "| Update ID | Revision | Changed Date | Changed By |"] @@
  "list_work_item_attachments" :> [empty |-> "No attachments found for this work item.", title |-> "Work Item Attachments",
      columns |-> "| ID | Name | Size | Created Date |"] @@
  "list_work_item_comments" :> [empty |-> "No comments found for this work item.", title |-> "Work Item Comments",
      columns |-> "| ID | Text | Created By | Created Date |"] @@
  "list_work_item_relations" :> [empty |-> "No relations found for this work item.", title |-> "Work Item Relations",
      columns |-> "| Relation | URL | Name |"] @@
  "list_work_item_query_results" :> [empty |-> "No work items found for this query.", title |-> "Query Results",
      columns |-> "| ID | Title | State | Assigned To | Type |"]

\* HttpListTemplate: the list-shaped templates of the http formatter: the fixed message for an
\* empty sequence, and the title and column header of the table otherwise.
HttpListTemplate ==
  "list_projects" :> [empty |-> "No projects found.", title |-> "Projects",
      columns |-> "| ID | Name | Description | URL |"] @@
  "list_project_teams" :> [empty |-> "No teams found.", title |-> "Teams",
      columns |-> "| ID | Name | Description | Project |"] @@
  "get_identity_ids" :> [empty |-> "No identities found.", title |-> "Identities",
      columns |-> "| Local ID | Display Name | Unique Name | Subject Descriptor |"] @@
  "query_work_items" :> [empty |-> "No work items found.", title |-> "Work Items",
      columns |-> "| ID | Title | State | Assigned To | Type |"] @@
  "get_work_items_by_ids" :> [empty |-> "No work items found.", title |-> "Work Items",
      columns |-> "| ID | Title | State | Assigned To | Type |"] @@
  "get_builds" :> [empty |-> "No builds found.", title |-> "Builds",
      columns |-> "| ID | Build Number | Status | Result | Queue Time | Branch |"] @@
  "get_releases" :> [empty |-> "No releases found.", title |-> "Releases",
      columns |-> "| ID | Name | Status | Created | Modified |"] @@
  "list_repositories" :> [empty |-> "No repositories found.", title |-> "Repositories",
      columns |-> "| ID | Name | Status | Fork | URL |"] @@
  "list_branches" :> [empty |-> "No branches found.", title |-> "Branches",
      columns |-> "| Name | Commit | Creator |"] @@
  "list_pull_requests" :> [empty |-> "No pull requests found.", title |-> "Pull Requests",
      columns |-> "| ID | Title | Status | Created By | Created |"] @@
  "search_code" :> [empty |-> "No code search results found.", title |-> "Code Search Results",
      columns |-> "| Project | Repository | Path | Matches |"] @@
  "search_work_items" :> [empty |-> "No work item search results found.", title |-> "Work Item Search Results",
      columns |-> "| ID | Title | State | Type |"] @@
  "list_wikis" :> [empty |-> "No wikis found.", title |-> "Wikis",
      columns |-> "| ID | Name | Type | Project ID |"] @@
  "list_team_iterations" :> [empty |-> "No iterations found for this team.", title |-> "Iterations",
      columns |-> "| ID | Name | Path | Dates |"] @@
  "list_test_plans" :> [empty |-> "No test plans found.", title |-> "Test Plans",
      columns |-> "| ID | Name | Description | Area Path | Iteration |"] @@
  "list_work_item_types" :> [empty |-> "No work item types found.", title |-> "Work Item Types",
      columns |-> "| Name | Reference Name | Description |"] @@
  "list_iterations" :> [empty |-> "No iterations found.", title |-> "Iterations",
      columns |-> "| ID | Name | Path | Dates |"] @@
  "list_build_definitions" :> [empty |-> "No build definitions found.", title |-> "Build Definitions",
      columns |-> "| ID | Name | Path | Queue Status |"] @@
  "list_release_definitions" :> [empty |-> "No release definitions found.", title |-> "Release Definitions",
      columns |-> "| ID | Name | Path | Release Name Format |"] @@
  "list_queries" :> [empty |-> "No queries found.", title |-> "Queries",
      columns |-> "| ID | Name | Path | Type |"] @@
  "get_work_item_revisions" :> [empty |-> "No revisions found for this work item.", title |-> "Work Item Revisions",
      columns |-> "| Rev | Changed Date | Changed By | State |"] @@
  "get_work_item_links" :> [empty |-> "No links found for this work item.", title |-> "Work Item Links",
      columns |-> "| Relation | URL | Name |"] @@
  "list_commits" :> [empty |-> "No commits found.", title |-> "Commits",
      columns |-> "| Commit | Author | Message | Date |"]

\* ChatListTemplate: the list-shaped templates of the chat formatter: the fixed message for an
\* empty sequence, and the title and column header of the table otherwise.
ChatListTemplate ==
  "list_projects" :> [empty |-> "No projects found.", title |-> "Projects",
      columns |-> "| ID | Name | Description | URL |"] @@
  "list_project_teams" :> [empty |-> "No teams found.", title |-> "Teams",
      columns |-> "| ID | Name | Description | Project |"] @@
  "get_identity_ids" :> [empty |-> "No identities found.", title |-> "Identities",
      columns |-> "| Local ID | Display Name | Unique Name | Subject Descriptor |"] @@
  "query_work_items" :> [empty |-> "No work items found.", title |-> "Work Items",
      columns |-> "| ID | Title | State | Assigned To | Type |"] @@
  "get_work_items_by_ids" :> [empty |-> "No work items found.", title |-> "Work Items",
      columns |-> "| ID | Title | State | Assigned To | Type |"] @@
  "get_builds" :> [empty |-> "No builds found.", title |-> "Builds",
      columns |-> "| ID | Build Number | Status | Result | Queue Time | Branch |"] @@
  "get_releases" :> [empty |-> "No releases found.", title |-> "Releases",
      columns |-> "| ID | Name | Status | Created | Modified |"] @@
  "list_repositories" :> [empty |-> "No repositories found.", title |-> "Repositories",
      columns |-> "| ID | Name | Status | Fork | URL |"] @@
  "list_branches" :> [empty |-> "No branches found.", title |-> "Branches",
      columns |-> "| Name | Commit | Creator |"] @@
  "list_pull_requests" :> [empty |-> "No pull requests found.", title |-> "Pull Requests",
      columns |-> "| ID | Title | Status | Created By | Created |"] @@
  "search_code" :> [empty |-> "No code search results found.", title |-> "Code Search Results",
      columns |-> "| Project | Repository | Path | Matches |"] @@
  "search_work_items" :> [empty |-> "No work item search results found.", title |-> "Work Item Search Results",
      columns |-> "| ID | Title | State | Type |"] @@
  "list_wikis" :> [empty |-> "No wikis found.", title |-> "Wikis",
      columns |-> "| ID | Name | Type | Project ID |"] @@
  "list_team_iterations" :> [empty |-> "No iterations found for this team.", title |-> "Iterations",
      columns |-> "| ID | Name | Path | Dates |"] @@
  "list_test_plans" :> [empty |-> "No test plans found.", title |-> "Test Plans",
      columns |-> "| ID | Name | Description | Area Path | Iteration |"] @@
  "list_work_item_types" :> [empty |-> "No work item types found.", title |-> "Work Item Types",
      columns |-> "| Name | Reference Name | Description |"] @@
  "list_iterations" :> [empty |-> "No iterations found.", title |-> "Iterations",
      columns |-> "| ID | Name | Path | Dates |"] @@
  "list_build_definitions" :> [empty |-> "No build definitions found.", title |-> "Build Definitions",
      columns |-> "| ID | Name | Path | Queue Status |"] @@
  "list_release_definitions" :> [empty |-> "No release definitions found.", title |-> "Release Definitions",
      columns |-> "| ID | Name | Path | Release Name Format |"] @@
  "list_queries" :> [empty |-> "No queries found.", title |-> "Queries",
      columns |-> "| ID | Name | Path | Type |"] @@
  "get_work_item_revisions" :> [empty |-> "No revisions found for this work item.", title |-> "Work Item Revisions",
      columns |-> "| Rev | Changed Date | Changed By | State |"] @@
  "get_work_item_links" :> [empty |-> "No links found for this work item.", title |-> "Work Item Links",
      columns |-> "| Relation | URL | Name |"] @@
  "list_commits" :> [empty |-> "No commits found.", title |-> "Commits",
      columns |-> "| Commit | Author | Message | Date |"]

\* The AzureDevOpsClient methods that issue one request and unwrap one field of
\* the response: HTTP verb, the field returned, whether a missing field is
\* replaced by [] (`|| []`), whether the field is mapped (`.value.map`), and
\* whether a 404 is caught and turned into [].
ClientMethods ==
  "getProjects" :> [verb |-> "GET", field |-> "value", orEmpty |-> FALSE, map |-> FALSE, catch404 |-> FALSE] @@
  "getBuilds" :> [verb |-> "GET", field |-> "value", orEmpty |-> FALSE, map |-> FALSE, catch404 |-> FALSE] @@
  "getReleases" :> [verb |-> "GET", field |-> "value", orEmpty |-> FALSE, map |-> FALSE, catch404 |-> FALSE] @@
  "getCurrentUser" :> [verb |-> "GET", field |-> "authenticatedUser", orEmpty |-> FALSE, map |-> FALSE, catch404 |-> FALSE] @@
  "createWorkItem" :> [verb |-> "POST", field |-> "data", orEmpty |-> FALSE, map |-> FALSE, catch404 |-> FALSE] @@
  "updateWorkItem" :> [verb |-> "PATCH", field |-> "data", orEmpty |-> FALSE, map |-> FALSE, catch404 |-> FALSE] @@
  "getRepositories" :> [verb |-> "GET", field |-> "value", orEmpty |-> FALSE, map |-> FALSE, catch404 |-> FALSE] @@
  "getBranches" :> [verb |-> "GET", field |-> "value", orEmpty |-> FALSE, map |-> TRUE, catch404 |-> FALSE] @@
  "getPullRequests" :> [verb |-> "GET", field |-> "value", orEmpty |-> FALSE, map |-> TRUE, catch404 |-> FALSE] @@
  "getPullRequestById" :> [verb |-> "GET", field |-> "data", orEmpty |-> FALSE, map |-> FALSE, catch404 |-> FALSE] @@
  "searchCode" :> [verb |-> "POST", field |-> "results", orEmpty |-> TRUE, map |-> FALSE, catch404 |-> FALSE] @@
  "searchWorkItems" :> [verb |-> "POST", field |-> "results", orEmpty |-> TRUE, map |-> FALSE, catch404 |-> FALSE] @@
  "getWikis" :> [verb |-> "GET", field |-> "value", orEmpty |-> FALSE, map |-> FALSE, catch404 |-> FALSE] @@
  "getWikiPageContent" :> [verb |-> "GET", field |-> "content", orEmpty |-> FALSE, map |-> FALSE, catch404 |-> FALSE] @@
  "getTeamIterations" :> [verb |-> "GET", field |-> "value", orEmpty |-> FALSE, map |-> FALSE, catch404 |-> FALSE] @@
  "getTestPlans" :> [verb |-> "GET", field |-> "value", orEmpty |-> FALSE, map |-> FALSE, catch404 |-> TRUE] @@
  "getTeams" :> [verb |-> "GET", field |-> "value", orEmpty |-> FALSE, map |-> FALSE, catch404 |-> FALSE] @@
  "searchIdentities" :> [verb |-> "GET", field |-> "data", orEmpty |-> FALSE, map |-> FALSE, catch404 |-> FALSE] @@
  "getWorkItemTypes" :> [verb |-> "GET", field |-> "value", orEmpty |-> FALSE, map |-> FALSE, catch404 |-> FALSE] @@
  "getIterations" :> [verb |-> "GET", field |-> "children", orEmpty |-> TRUE, map |-> FALSE, catch404 |-> TRUE] @@
  "getBuildDefinitions" :> [verb |-> "GET", field |-> "value", orEmpty |-> FALSE, map |-> FALSE, catch404 |-> FALSE] @@
  "getReleaseDefinitions" :> [verb |-> "GET", field |-> "value", orEmpty |-> FALSE, map |-> FALSE, catch404 |-> TRUE] @@
  "getQueries" :> [verb |-> "GET", field |-> "value", orEmpty |-> FALSE, map |-> FALSE, catch404 |-> FALSE] @@
  "getWorkItemRevisions" :> [verb |-> "GET", field |-> "value", orEmpty |-> FALSE, map |-> FALSE, catch404 |-> FALSE] @@
  "getWorkItemLinks" :> [verb |-> "GET", field |-> "relations", orEmpty |-> TRUE, map |-> FALSE, catch404 |-> FALSE] @@
  "createPullRequest" :> [verb |-> "POST", field |-> "data", orEmpty |-> FALSE, map |-> FALSE, catch404 |-> FALSE] @@
  "getCommits" :> [verb |-> "GET", field |-> "value", orEmpty |-> FALSE, map |-> FALSE, catch404 |-> FALSE] @@
  "getFileContent" :> [verb |-> "GET", field |-> "data", orEmpty |-> FALSE, map |-> FALSE, catch404 |-> FALSE] @@
  "getAreas" :> [verb |-> "GET", field |-> "children", orEmpty |-> TRUE, map |-> FALSE, catch404 |-> TRUE] @@
  "getIterationCapacities" :> [verb |-> "GET", field |-> "value", orEmpty |-> TRUE, map |-> FALSE, catch404 |-> TRUE] @@
  "getWorkItemCategories" :> [verb |-> "GET", field |-> "value", orEmpty |-> TRUE, map |-> FALSE, catch404 |-> TRUE] @@
  "getDashboards" :> [verb |-> "GET", field |-> "value", orEmpty |-> TRUE, map |-> FALSE, catch404 |-> TRUE] @@
  "getPipelines" :> [verb |-> "GET", field |-> "value", orEmpty |-> TRUE, map |-> FALSE, catch404 |-> TRUE] @@
  "getTestSuites" :> [verb |-> "GET", field |-> "value", orEmpty |-> TRUE, map |-> FALSE, catch404 |-> TRUE] @@
  "getVariableGroups" :> [verb |-> "GET", field |-> "value", orEmpty |-> TRUE, map |-> FALSE, catch404 |-> TRUE] @@
  "getServiceEndpoints" :> [verb |-> "GET", field |-> "value", orEmpty |-> TRUE, map |-> FALSE, catch404 |-> TRUE] @@
  "getTags" :> [verb |-> "GET", field |-> "value", orEmpty |-> TRUE, map |-> FALSE, catch404 |-> TRUE] @@
  "getTeamMembers" :> [verb |-> "GET", field |-> "value", orEmpty |-> TRUE, map |-> FALSE, catch404 |-> TRUE] @@
  "getBoards" :> [verb |-> "GET", field |-> "value", orEmpty |-> TRUE, map |-> FALSE, catch404 |-> TRUE] @@
  "getBoardColumns" :> [verb |-> "GET", field |-> "value", orEmpty |-> TRUE, map |-> FALSE, catch404 |-> TRUE] @@
  "getBoardRows" :> [verb |-> "GET", field |-> "value", orEmpty |-> TRUE, map |-> FALSE, catch404 |-> TRUE] @@
  "getWorkItemStates" :> [verb |-> "GET", field |-> "value", orEmpty |-> TRUE, map |-> FALSE, catch404 |-> TRUE] @@
  "getWorkItemFields" :> [verb |-> "GET", field |-> "value", orEmpty |-> TRUE, map |-> FALSE, catch404 |-> TRUE] @@
  "getWorkItemUpdates" :> [verb |-> "GET", field |-> "value", orEmpty |-> TRUE, map |-> FALSE, catch404 |-> TRUE] @@
  "getWorkItemAttachments" :> [verb |-> "GET", field |-> "value", orEmpty |-> TRUE, map |-> FALSE, catch404 |-> TRUE] @@
  "getWorkItemComments" :> [verb |-> "GET", field |-> "comments", orEmpty |-> TRUE, map |-> FALSE, catch404 |-> TRUE] @@
  "getWorkItemRelations" :> [verb |-> "GET", field |-> "relations", orEmpty |-> TRUE, map |-> FALSE, catch404 |-> TRUE]

\* The parameters of each client method in positional order: dflt is the default
\* value of the signature ("" for none) and config tells that the body falls back
\* to the configured project (`const proj = project || this.project`).
ClientParams ==
  "getProjects" :> <<>> @@
  "getWorkItems" :> <<[name |-> "ids", dflt |-> "", config |-> FALSE]>> @@
  "queryWorkItems" :> <<[name |-> "wiql", dflt |-> "", config |-> FALSE]>> @@
  "getBuilds" :> <<[name |-> "definitionId", dflt |-> "", config |-> FALSE], [name |-> "top", dflt |-> "10", config |-> FALSE]>> @@
  "getReleases" :> <<[name |-> "top", dflt |-> "10", config |-> FALSE]>> @@
  "getCurrentUser" :> <<>> @@
  "createWorkItem" :> <<[name |-> "workItemType", dflt |-> "", config |-> FALSE], [name |-> "title", dflt |-> "", config |-> FALSE], [name |-> "description", dflt |-> "", config |-> FALSE], [name |-> "additionalFields", dflt |-> "", config |-> FALSE]>> @@
  "updateWorkItem" :> <<[name |-> "id", dflt |-> "", config |-> FALSE], [name |-> "fields", dflt |-> "", config |-> FALSE], [name |-> "comment", dflt |-> "", config |-> FALSE]>> @@
  "assignWorkItem" :> <<[name |-> "id", dflt |-> "", config |-> FALSE], [name |-> "assignee", dflt |-> "", config |-> FALSE], [name |-> "comment", dflt |-> "", config |-> FALSE]>> @@
  "getRepositories" :> <<[name |-> "project", dflt |-> "", config |-> TRUE]>> @@
  "getBranches" :> <<[name |-> "repositoryId", dflt |-> "", config |-> FALSE], [name |-> "project", dflt |-> "", config |-> TRUE]>> @@
  "getPullRequests" :> <<[name |-> "repositoryId", dflt |-> "", config |-> FALSE], [name |-> "project", dflt |-> "", config |-> TRUE], [name |-> "top", dflt |-> "100", config |-> FALSE], [name |-> "status", dflt |-> "active", config |-> FALSE]>> @@
  "getPullRequestById" :> <<[name |-> "repositoryId", dflt |-> "", config |-> FALSE], [name |-> "pullRequestId", dflt |-> "", config |-> FALSE], [name |-> "project", dflt |-> "", config |-> TRUE]>> @@
  "searchCode" :> <<[name |-> "searchText", dflt |-> "", config |-> FALSE], [name |-> "project", dflt |-> "", config |-> TRUE], [name |-> "repository", dflt |-> "", config |-> FALSE], [name |-> "top", dflt |-> "5", config |-> FALSE]>> @@
  "searchWorkItems" :> <<[name |-> "searchText", dflt |-> "", config |-> FALSE], [name |-> "project", dflt |-> "", config |-> TRUE], [name |-> "top", dflt |-> "10", config |-> FALSE]>> @@
  "getWikis" :> <<[name |-> "project", dflt |-> "", config |-> TRUE]>> @@
  "getWikiPageContent" :> <<[name |-> "wikiIdentifier", dflt |-> "", config |-> FALSE], [name |-> "project", dflt |-> "", config |-> TRUE], [name |-> "path", dflt |-> "/", config |-> FALSE]>> @@
  "getTeamIterations" :> <<[name |-> "project", dflt |-> "", config |-> FALSE], [name |-> "team", dflt |-> "", config |-> FALSE]>> @@
  "getTestPlans" :> <<[name |-> "project", dflt |-> "", config |-> FALSE]>> @@
  "getTeams" :> <<[name |-> "project", dflt |-> "", config |-> FALSE], [name |-> "mine", dflt |-> "", config |-> FALSE], [name |-> "top", dflt |-> "", config |-> FALSE], [name |-> "skip", dflt |-> "", config |-> FALSE]>> @@
  "searchIdentities" :> <<[name |-> "searchFilter", dflt |-> "", config |-> FALSE]>> @@
  "getWorkItemTypes" :> <<[name |-> "project", dflt |-> "", config |-> TRUE]>> @@
  "getIterations" :> <<[name |-> "project", dflt |-> "", config |-> TRUE]>> @@
  "getBuildDefinitions" :> <<[name |-> "project", dflt |-> "", config |-> TRUE]>> @@
  "getReleaseDefinitions" :> <<[name |-> "project", dflt |-> "", config |-> TRUE]>> @@
  "getQueries" :> <<[name |-> "project", dflt |-> "", config |-> TRUE]>> @@
  "getWorkItemRevisions" :> <<[name |-> "id", dflt |-> "", config |-> FALSE], [name |-> "project", dflt |-> "", config |-> TRUE]>> @@
  "getWorkItemLinks" :> <<[name |-> "id", dflt |-> "", config |-> FALSE], [name |-> "project", dflt |-> "", config |-> TRUE]>> @@
  "createPullRequest" :> <<[name |-> "repositoryId", dflt |-> "", config |-> FALSE], [name |-> "sourceBranch", dflt |-> "", config |-> FALSE], [name |-> "targetBranch", dflt |-> "", config |-> FALSE], [name |-> "title", dflt |-> "", config |-> FALSE], [name |-> "description", dflt |-> "", config |-> FALSE], [name |-> "project", dflt |-> "", config |-> TRUE]>> @@
  "getCommits" :> <<[name |-> "repositoryId", dflt |-> "", config |-> FALSE], [name |-> "project", dflt |-> "", config |-> TRUE], [name |-> "top", dflt |-> "10", config |-> FALSE]>> @@
  "getFileContent" :> <<[name |-> "repositoryId", dflt |-> "", config |-> FALSE], [name |-> "path", dflt |-> "", config |-> FALSE], [name |-> "project", dflt |-> "", config |-> TRUE]>> @@
  "getAreas" :> <<[name |-> "project", dflt |-> "", config |-> TRUE]>> @@
  "getIterationCapacities" :> <<[name |-> "project", dflt |-> "", config |-> FALSE], [name |-> "team", dflt |-> "", config |-> FALSE], [name |-> "iterationId", dflt |-> "", config |-> FALSE]>> @@
  "getWorkItemCategories" :> <<[name |-> "project", dflt |-> "", config |-> TRUE]>> @@
  "getDashboards" :> <<[name |-> "project", dflt |-> "", config |-> TRUE]>> @@
  "getPipelines" :> <<[name |-> "project", dflt |-> "", config |-> TRUE]>> @@
  "getTestSuites" :> <<[name |-> "project", dflt |-> "", config |-> FALSE], [name |-> "planId", dflt |-> "", config |-> FALSE]>> @@
  "getVariableGroups" :> <<[name |-> "project", dflt |-> "", config |-> TRUE]>> @@
  "getServiceEndpoints" :> <<[name |-> "project", dflt |-> "", config |-> TRUE]>> @@
  "getTags" :> <<[name |-> "project", dflt |-> "", config |-> TRUE]>> @@
  "getTeamMembers" :> <<[name |-> "project", dflt |-> "", config |-> FALSE], [name |-> "team", dflt |-> "", config |-> FALSE]>> @@
  "getBoards" :> <<[name |-> "project", dflt |-> "", config |-> FALSE], [name |-> "team", dflt |-> "", config |-> FALSE]>> @@
  "getBoardColumns" :> <<[name |-> "project", dflt |-> "", config |-> FALSE], [name |-> "team", dflt |-> "", config |-> FALSE], [name |-> "board", dflt |-> "", config |-> FALSE]>> @@
  "getBoardRows" :> <<[name |-> "project", dflt |-> "", config |-> FALSE], [name |-> "team", dflt |-> "", config |-> FALSE], [name |-> "board", dflt |-> "", config |-> FALSE]>> @@
  "getWorkItemStates" :> <<[name |-> "project", dflt |-> "", config |-> FALSE], [name |-> "workItemType", dflt |-> "", config |-> FALSE]>> @@
  "getWorkItemFields" :> <<[name |-> "project", dflt |-> "", config |-> TRUE]>> @@
  "getWorkItemUpdates" :> <<[name |-> "id", dflt |-> "", config |-> FALSE], [name |-> "project", dflt |-> "", config |-> TRUE]>> @@
  "getWorkItemAttachments" :> <<[name |-> "id", dflt |-> "", config |-> FALSE], [name |-> "project", dflt |-> "", config |-> TRUE]>> @@
  "getWorkItemComments" :> <<[name |-> "id", dflt |-> "", config |-> FALSE], [name |-> "project", dflt |-> "", config |-> TRUE]>> @@
  "getWorkItemRelations" :> <<[name |-> "id", dflt |-> "", config |-> FALSE], [name |-> "project", dflt |-> "", config |-> TRUE]>> @@
  "getQueryResults" :> <<[name |-> "project", dflt |-> "", config |-> FALSE], [name |-> "queryId", dflt |-> "", config |-> FALSE]>>

\* ---------------------------------------------------------------------------
\* Registry lookups
\* ---------------------------------------------------------------------------
ToolNames == {tools[i].name : i \in DOMAIN tools}

\* tools.find(t => t.name === name)
FindTool(name) == CHOOSE t \in Range(tools) : t.name = name

PropNames(name) == {FindTool(name).properties[i].name : i \in DOMAIN FindTool(name).properties}

PropType(name, p) ==
  (CHOOSE q \in Range(FindTool(name).properties) : q.name = p).type

Required(name) == Range(FindTool(name).required)

\* The CallTool switch with the case of one registered tool left out.
McpCases_MissingCase == DOMAIN McpSwitch \ {"list_tags"}

\* The case labels of the three switches.
McpCases == DOMAIN McpSwitch
HttpCases == DOMAIN HttpSwitch
ChatCases == DOMAIN ChatSwitch

\* ---------------------------------------------------------------------------
\* Argument objects
\* ---------------------------------------------------------------------------
\* JavaScript truthiness of an abstract value.
Truthy(v) == v \in {"truthy", "empty"}

ValuesOf(type) ==
  CASE type = "array" -> {"undefined", "empty", "truthy"}
    [] type = "object" -> {"undefined", "truthy"}
    [] OTHER -> {"undefined", "falsy", "truthy"}

\* A name that no registry entry and no switch case carries.
UnknownName == "no_such_tool"

RequestNames == ToolNames \cup McpCases \cup HttpCases \cup ChatCases \cup {UnknownName}

NoArgs == [p \in {} |-> "undefined"]

\* Argument objects over the declared properties of a tool, each value of the
\* property's declared type (or absent).
ArgSpace(name) ==
  IF name \in ToolNames
    THEN {a \in [PropNames(name) -> {"undefined", "falsy", "empty", "truthy"}] :
            \A p \in PropNames(name) : a[p] \in ValuesOf(PropType(name, p))}
    ELSE {NoArgs}

\* args?.p / args.p
Arg(args, p) == IF p \in DOMAIN args THEN args[p] ELSE "undefined"

\* One positional argument as the switch case passes it: the value read from the
\* argument object, or the case's `|| literal` fallback when that value is falsy.
PassArg(a, args) ==
  LET v == Arg(args, a.param)
  IN IF a.dflt = "" \/ Truthy(v) THEN v
     ELSE IF v = "falsy" /\ a.dflt = "0" THEN v   \* 0 || 0
     ELSE "default:" \o a.dflt

PassArgs(argv, args) == [i \in DOMAIN argv |-> PassArg(argv[i], args)]

\* ---------------------------------------------------------------------------
\* Backend
\* ---------------------------------------------------------------------------
RecIds == {5 + 2 * i : i \in 1..MaxIds}

\* A record of a backend payload.  nested: its optional and nested fields
\* (fields, createdBy, objectId, repository, attributes, ...) are present.
Rec(i) == [id |-> i, nested |-> TRUE]
Bare(i) == [id |-> i, nested |-> FALSE]

RECURSIVE SeqsUpTo(_, _)
SeqsUpTo(S, n) ==
  IF n = 0 THEN {<<>>}
  ELSE LET shorter == SeqsUpTo(S, n - 1)
       IN shorter \cup {Append(s, x) : s \in {t \in shorter : Len(t) = n - 1}, x \in S}

\* The record with the smallest id also comes without its nested fields.
BareIds == {i \in RecIds : \A j \in RecIds : i <= j}

RecLists == SeqsUpTo({Rec(i) : i \in RecIds} \cup {Bare(i) : i \in BareIds}, MaxRows)

\* What the backend answers to one request: an HTTP status (0: no response at
\* all, a transport failure) and, on 200, a body in which the collection field
\* is present (has) with its records, or absent.
Outcomes ==
  {[status |-> 200, has |-> TRUE, rows |-> r] : r \in RecLists}
    \cup {[status |-> s, has |-> FALSE, rows |-> <<>>] : s \in {200, 404, 500, 0}}

\* Placeholder for a request that is never issued.
Unused == [status |-> 0, has |-> FALSE, rows |-> <<>>]

\* ---------------------------------------------------------------------------
\* Errors and client results
\* ---------------------------------------------------------------------------
NoError == [kind |-> "none", msg |-> "", status |-> 0]
\* axios rejects a non-2xx response (status > 0) or a transport failure (0).
HttpError(status) == [kind |-> "backend", msg |-> "Request failed", status |-> status]
\* A TypeError raised by JavaScript on a property read of undefined or a call
\* of a non-function.
TypeError(what) == [kind |-> "type_error", msg |-> what, status |-> 0]

\* Values a client method returns: undefined, a sequence of records, one record
\* (full: its nested objects are present) or a text.
Undefined == [shape |-> "undefined", rows |-> <<>>, full |-> TRUE]
List(rows) == [shape |-> "list", rows |-> rows, full |-> TRUE]
Record(rows, full) == [shape |-> "record", rows |-> rows, full |-> full]
Text(rows) == [shape |-> "text", rows |-> rows, full |-> TRUE]

Ok(val, reqs) == [ok |-> TRUE, val |-> val, err |-> NoError, reqs |-> reqs]
Fail(err, reqs) == [ok |-> FALSE, val |-> Undefined, err |-> err, reqs |-> reqs]

\* One request on the wire (verb, endpoint, the ids of a batch fetch) and the
\* answer it got.
Request(verb, endpoint, ids, o) ==
  [verb |-> verb, endpoint |-> endpoint, ids |-> ids, status |-> o.status, answer |-> o]

\* The ids the caller supplies in a non-empty `ids` array.
SuppliedIds == <<7, 9>>

\* workItemRefs.map(wi => wi.id)
RefIds(refs) == [i \in DOMAIN refs |-> refs[i].id]

\* ---------------------------------------------------------------------------
\* AzureDevOpsClient
\* ---------------------------------------------------------------------------
\* A catch clause that swallows every failed response.
Catch404_AnyError(status) == status # 200

\* catch (error) { if (error.response?.status === 404) return []; throw error; }
\* A transport failure has no response, so its status never equals 404.
Catch404(status) == status = 404

\* The value a one-request method returns for a 200 body.
Unwrap(m, o) ==
  CASE m.field = "data" -> Record(o.rows, o.has)
    [] m.field = "content" -> IF o.has THEN Text(o.rows) ELSE Undefined
    [] m.field = "authenticatedUser" -> IF o.has THEN Record(o.rows, TRUE) ELSE Undefined
    [] OTHER -> IF o.has THEN List(o.rows)
                ELSE IF m.orEmpty THEN List(<<>>) ELSE Undefined

\* A client whose every request is a PATCH.
Verb_AlwaysPatch(method) == "PATCH"

\* this.axiosInstance.get / .post / .patch of a one-request method.
Verb(method) == ClientMethods[method].verb

\* A method that issues one request and unwraps one field of the response.
SimpleCall(method, o) ==
  LET m == ClientMethods[method]
      reqs == <<Request(Verb(method), method, <<>>, o)>>
  IN IF o.status # 200
       THEN IF m.catch404 /\ Catch404(o.status)
              THEN Ok(List(<<>>), reqs)
              ELSE Fail(HttpError(o.status), reqs)
       ELSE IF m.map /\ ~o.has
              THEN Fail(TypeError("response.data.value.map"), reqs)
              ELSE Ok(Unwrap(m, o), reqs)

\* getWorkItems without the `ids.length === 0` test: the batch fetch is
\* requested for an empty list as well.
getWorkItems_NoEmptyCheck(ids, o) ==
  LET reqs == <<Request("GET", "getWorkItems", ids, o)>>
  IN IF o.status # 200
       THEN Fail(HttpError(o.status), reqs)
       ELSE Ok(IF o.has THEN List(o.rows) ELSE Undefined, reqs)

\* getWorkItems(ids) for an actual array of ids.
getWorkItems(ids, o) ==
  IF Len(ids) = 0
    THEN Ok(List(<<>>), <<>>)
    ELSE LET reqs == <<Request("GET", "getWorkItems", ids, o)>>
         IN IF o.status # 200
              THEN Fail(HttpError(o.status), reqs)
              ELSE Ok(IF o.has THEN List(o.rows) ELSE Undefined, reqs)

\* getWorkItems as the dispatchers call it, with the `ids` value of the argument
\* object: reading `.length` of undefined throws before any request.
getWorkItemsArg(v, o) ==
  IF v = "undefined"
    THEN Fail(TypeError("ids.length"), <<>>)
    ELSE getWorkItems(IF v = "empty" THEN <<>> ELSE SuppliedIds, o)

\* queryWorkItems without the test for an absent or empty reference list: the
\* batch fetch is requested whatever the query returned.
queryWorkItems_NoEmptyCheck(o1, o2) ==
  LET first == <<Request("POST", "queryWorkItems", <<>>, o1)>>
  IN IF o1.status # 200
       THEN Fail(HttpError(o1.status), first)
       ELSE LET ids == RefIds(o1.rows)
                second == <<Request("GET", "getWorkItems", ids, o2)>>
            IN IF o2.status # 200
                 THEN Fail(HttpError(o2.status), first \o second)
                 ELSE Ok(IF o2.has THEN List(o2.rows) ELSE Undefined, first \o second)

\* queryWorkItems(wiql): the WIQL POST, then the batch fetch of the ids.
queryWorkItems(o1, o2) ==
  LET first == <<Request("POST", "queryWorkItems", <<>>, o1)>>
  IN IF o1.status # 200
       THEN Fail(HttpError(o1.status), first)
       ELSE IF ~o1.has \/ Len(o1.rows) = 0
              THEN Ok(List(<<>>), first)
              ELSE LET second == getWorkItems(RefIds(o1.rows), o2)
                   IN [second EXCEPT !.reqs = first \o second.reqs]

\* getQueryResults(project, queryId): the saved-query GET, then the batch fetch.
\* `return this.getWorkItems(ids)` is not awaited inside the try block, so a
\* rejection of the batch fetch is not seen by the catch clause.
getQueryResults(o1, o2) ==
  LET first == <<Request("GET", "getQueryResults", <<>>, o1)>>
  IN IF o1.status # 200
       THEN IF Catch404(o1.status)
              THEN Ok(List(<<>>), first)
              ELSE Fail(HttpError(o1.status), first)
       ELSE IF o1.has
              THEN LET second == getWorkItems(RefIds(o1.rows), o2)
                   IN [second EXCEPT !.reqs = first \o second.reqs]
              ELSE Ok(List(<<>>), first)

\* updateWorkItem(id, fields, comment): Object.entries(fields) throws on an
\* undefined `fields` before the PATCH is built.
updateWorkItem(fields, o) ==
  IF fields = "undefined"
    THEN Fail(TypeError("Object.entries(fields)"), <<>>)
    ELSE SimpleCall("updateWorkItem", o)

\* assignWorkItem(id, assignee, comment) delegates with a one-field object.
assignWorkItem(o) == updateWorkItem("truthy", o)

\* The value a client method works with for one positional argument: a
\* signature default replaces undefined only, and `project || this.project`
\* replaces every falsy project by the configured one.
ResolveParam(par, v) ==
  CASE par.config /\ v \in {"undefined", "falsy"} -> "config:project"
    [] par.dflt # "" /\ v = "undefined" -> "default:" \o par.dflt
    [] OTHER -> v

Resolve(method, passed) ==
  [i \in DOMAIN passed |-> ResolveParam(ClientParams[method][i], passed[i])]

ClientMethodNames ==
  DOMAIN ClientMethods \cup {"getWorkItems", "queryWorkItems", "assignWorkItem", "getQueryResults"}

\* One call of a client method with the positional arguments `passed`.
ClientCall(method, passed, o1, o2) ==
  CASE method = "getWorkItems" -> getWorkItemsArg(passed[1], o1)
    [] method = "queryWorkItems" -> queryWorkItems(o1, o2)
    [] method = "getQueryResults" -> getQueryResults(o1, o2)
    [] method = "updateWorkItem" -> updateWorkItem(passed[2], o1)
    [] method = "assignWorkItem" -> assignWorkItem(o1)
    [] OTHER -> SimpleCall(method, o1)

\* The backend answers are inputs of an invocation; answers to requests that
\* the call never issues are pinned to the placeholder.
ScriptFits(r, o1, o2) ==
  /\ Len(r.reqs) < 1 => o1 = Unused
  /\ Len(r.reqs) < 2 => o2 = Unused

\* ---------------------------------------------------------------------------
\* Formatting
\* ---------------------------------------------------------------------------
\* A formatted text: a fixed message, a table (title with the record count,
\* column header, one row per record in order), a block of lines, or the JSON of
\* the raw payload.  `rows` are the ids of the records the text renders, `cells`
\* what the optional-field cells of each table row show, and `shape` the
\* payload's shape.
NoFmt ==
  [kind |-> "none", head |-> "", count |-> 0, columns |-> "", rows |-> <<>>, cells |-> <<>>,
   lines |-> <<>>, shape |-> ""]

Msg(s) ==
  [kind |-> "text", head |-> s, count |-> 0, columns |-> "", rows |-> <<>>, cells |-> <<>>,
   lines |-> <<>>, shape |-> "list"]

\* `${x.f?.g || ''}`: the value, or the empty string when the field is absent.
Cell(rec) == IF rec.nested THEN "${value}" ELSE ""

\* `## Title (${xs.length})`, the column header, then xs.map(x => `| ... |`).join('\n')
Table(t, rows) ==
  [kind |-> "table", head |-> "## " \o t.title, count |-> Len(rows), columns |-> t.columns,
   rows |-> [i \in DOMAIN rows |-> rows[i].id],
   cells |-> [i \in DOMAIN rows |-> Cell(rows[i])],
   lines |-> <<>>, shape |-> "list"]

Block(lines, val) ==
  [kind |-> "block", head |-> "", count |-> 0, columns |-> "",
   rows |-> [i \in DOMAIN val.rows |-> val.rows[i].id], cells |-> <<>>,
   lines |-> lines, shape |-> val.shape]

\* String(rawResult) in place of JSON.stringify.
Json_AsString(val) == Msg("[object Object]")

\* JSON.stringify(rawResult, null, 2); undefined stringifies to undefined.
Json(val) ==
  [kind |-> "json", head |-> "", count |-> 0, columns |-> "",
   rows |-> [i \in DOMAIN val.rows |-> val.rows[i].id], cells |-> <<>>,
   lines |-> <<>>, shape |-> val.shape]

FmtOk(f) == [ok |-> TRUE, fmt |-> f, err |-> NoError]
FmtFail(e) == [ok |-> FALSE, fmt |-> NoFmt, err |-> e]

\* The check-mark character that opens the confirmation templates is written [OK]
\* and the three-backquote code fence [fence].

\* `${x}` for an argument value.
Show(args, p) == "${" \o p \o ":" \o Arg(args, p) \o "}"

\* `${x ? `label: ${x}` : ''}`: an empty line when x is falsy.
CondLine(args, p, label) ==
  IF Truthy(Arg(args, p)) THEN label \o Show(args, p) ELSE ""

\* A list template applied to a payload: `.length` of undefined throws, a
\* non-array has no `.map`; [] gives the fixed message, otherwise the table.
FormatList(t, val) ==
  CASE val.shape = "undefined" -> FmtFail(TypeError("rawResult.length"))
    [] val.shape = "list" ->
         IF Len(val.rows) = 0 THEN FmtOk(Msg(t.empty)) ELSE FmtOk(Table(t, val.rows))
    [] OTHER -> FmtFail(TypeError("rawResult.map"))

\* Row templates that read through a nested field without `?.`
\* (`const fields = wi.fields; fields['System.Title']`, `b.objectId.substring(0, 8)`,
\* `pr.createdBy.displayName`, `i.attributes.startDate`).
McpStrictRows ==
  {"query_work_items", "get_work_items_by_ids", "list_branches", "list_pull_requests",
   "list_team_iterations", "list_work_item_query_results"}
HttpStrictRows == {"query_work_items", "get_work_items_by_ids"}
ChatStrictRows == {"query_work_items", "get_work_items_by_ids"}

\* A strict row template applied to a payload: a record without the nested
\* field makes the property read throw inside map().
FormatStrictList(t, val) ==
  IF val.shape = "list" /\ \E i \in DOMAIN val.rows : ~val.rows[i].nested
    THEN FmtFail(TypeError("Cannot read properties of undefined"))
    ELSE FormatList(t, val)

\* get_identity_ids tests `!identities` before `.length`.
FormatIdentities(t, val) ==
  IF val.shape = "undefined" THEN FmtOk(Msg(t.empty)) ELSE FormatList(t, val)

\* The non-list templates of the CallTool cases.
McpBlock(name, val, args) ==
  CASE name = "create_work_item" ->
         FmtOk(Block(<<"[OK] Work item created successfully!", "**ID**: ${workItem.id}",
                       "**Type**: " \o Show(args, "workItemType"),
                       "**Title**: " \o Show(args, "title"),
                       "**URL**: ${workItem.url}",
                       CondLine(args, "description", "**Description**: "), "">>, val))
    [] name = "update_work_item" ->
         FmtOk(Block(<<"[OK] Work item ${workItem.id} updated successfully!",
                       "**Updated fields**:", Show(args, "fields"),
                       CondLine(args, "comment", "**Comment**: ")>>, val))
    [] name = "assign_work_item" ->
         FmtOk(Block(<<"[OK] Work item ${workItem.id} assigned to " \o Show(args, "assignee")
                          \o " successfully!",
                       CondLine(args, "comment", "**Comment**: ")>>, val))
    [] name = "get_pull_request" ->
         IF ~val.full
           THEN FmtFail(TypeError("pr.repository.name"))
           ELSE FmtOk(Block(<<"## Pull Request ${pr.pullRequestId}", "**Title**: ${pr.title}",
                              "**Repository**: ${pr.repository.name}", "**Status**: ${pr.status}",
                              "**Created By**: ${pr.createdBy.displayName} (${pr.createdBy.uniqueName})",
                              "**Created**: ${pr.creationDate}", "**Source**: ${pr.sourceRefName}",
                              "**Target**: ${pr.targetRefName}", "${pr.description}">>, val))
    [] name = "get_wiki_page" ->
         FmtOk(Block(<<"## Wiki Page: " \o (IF Truthy(Arg(args, "path")) THEN Show(args, "path") ELSE "/"),
                       "${content}">>, val))
    [] name = "get_current_user" ->
         IF val.shape = "undefined"
           THEN FmtFail(TypeError("user.id"))
           ELSE FmtOk(Block(<<"## Current User", "**ID**: ${user.id}",
                              "**Display Name**: ${user.displayName}",
                              "**Unique Name**: ${user.uniqueName}",
                              "**Email**: ${user.email || 'N/A'}">>, val))
    [] name = "create_pull_request" ->
         FmtOk(Block(<<"[OK] Pull request created successfully!", "**ID**: ${pr.pullRequestId}",
                       "**Title**: " \o Show(args, "title"),
                       "**Repository**: ${pr.repository?.name || ''}",
                       "**Source**: " \o Show(args, "sourceBranch"),
                       "**Target**: " \o Show(args, "targetBranch"),
                       "**Status**: ${pr.status}", "**URL**: ${pr.url || 'N/A'}",
                       CondLine(args, "description", "**Description**: ")>>, val))
    [] name = "get_file_content" ->
         FmtOk(Block(<<"## File: " \o Show(args, "path"), "[fence]", "${content}", "[fence]">>, val))

\* The formatting of the CallTool cases: every case has its own template.
McpFormat(name, val, args) ==
  IF name \in DOMAIN McpListTemplate
    THEN IF name = "get_identity_ids"
           THEN FormatIdentities(McpListTemplate[name], val)
           ELSE IF name \in McpStrictRows
                  THEN FormatStrictList(McpListTemplate[name], val)
                  ELSE FormatList(McpListTemplate[name], val)
    ELSE McpBlock(name, val, args)

\* The non-list templates of the POST /api/tools/:name formatting chain.
HttpBlock(name, val, args) ==
  CASE name = "create_work_item" ->
         FmtOk(Block(<<"[OK] Work item created successfully!", "**ID**: ${workItem.id}",
                       "**Type**: " \o Show(args, "workItemType"),
                       "**Title**: " \o Show(args, "title"),
                       "**URL**: ${workItem.url}",
                       CondLine(args, "description", "**Description**: ")>>, val))
    [] name = "update_work_item" ->
         FmtOk(Block(<<"[OK] Work item ${workItem.id} updated successfully!",
                       "**Updated fields**:",
                       IF Truthy(Arg(args, "fields")) THEN Show(args, "fields") ELSE "",
                       CondLine(args, "comment", "**Comment**: ")>>, val))
    [] name = "assign_work_item" ->
         FmtOk(Block(<<"[OK] Work item ${workItem.id} assigned to " \o Show(args, "assignee")
                          \o " successfully!",
                       CondLine(args, "comment", "**Comment**: ")>>, val))
    [] name = "get_pull_request" ->
         FmtOk(Block(<<"## Pull Request ${pr.pullRequestId}", "**Title**: ${pr.title}",
                       IF val.full THEN "**Repository**: ${pr.repository.name}"
                                   ELSE "**Repository**: ",
                       "**Status**: ${pr.status}",
                       IF val.full
                         THEN "**Created By**: ${pr.createdBy.displayName} (${pr.createdBy.uniqueName})"
                         ELSE "**Created By**:  ()",
                       "**Created**: ${pr.creationDate}", "**Source**: ${pr.sourceRefName}",
                       "**Target**: ${pr.targetRefName}", "${pr.description}">>, val))
    [] name = "get_wiki_page" ->
         FmtOk(Block(<<"## Wiki Page: " \o (IF Truthy(Arg(args, "path")) THEN Show(args, "path") ELSE "/"),
                       "${content}">>, val))
    [] name = "get_current_user" ->
         IF val.shape = "undefined"
           THEN FmtFail(TypeError("user.id"))
           ELSE FmtOk(Block(<<"## Current User", "**ID**: ${user.id}",
                              "**Display Name**: ${user.displayName}",
                              "**Unique Name**: ${user.uniqueName}",
                              "**Email**: ${user.email || 'N/A'}">>, val))
    [] name = "create_pull_request" ->
         FmtOk(Block(<<"[OK] Pull request created successfully!", "**ID**: ${pr.pullRequestId}",
                       "**Title**: " \o Show(args, "title"),
                       "**Repository**: ${pr.repository?.name || ''}",
                       "**Source**: " \o Show(args, "sourceBranch"),
                       "**Target**: " \o Show(args, "targetBranch"),
                       "**Status**: ${pr.status}", "**URL**: ${pr.url || 'N/A'}",
                       CondLine(args, "description", "**Description**: ")>>, val))
    [] name = "get_file_content" ->
         FmtOk(Block(<<"## File: " \o Show(args, "path"), "[fence]", "${content}", "[fence]">>, val))

HttpBlockNames ==
  {"create_work_item", "update_work_item", "assign_work_item", "get_pull_request",
   "get_wiki_page", "get_current_user", "create_pull_request", "get_file_content"}

\* The if / else-if chain of POST /api/tools/:name, ending in the JSON fallback.
HttpFormat(name, val, args) ==
  CASE name \in DOMAIN HttpListTemplate ->
         IF name = "get_identity_ids"
           THEN FormatIdentities(HttpListTemplate[name], val)
           ELSE IF name \in HttpStrictRows
                  THEN FormatStrictList(HttpListTemplate[name], val)
                  ELSE FormatList(HttpListTemplate[name], val)
    [] name \in HttpBlockNames -> HttpBlock(name, val, args)
    [] OTHER -> FmtOk(Json(val))

\* The non-list templates of the /api/chat formatting chain.
ChatBlock(name, val, args) ==
  CASE name = "create_work_item" ->
         FmtOk(Block(<<"[OK] Work item created successfully!", "**ID**: ${workItem.id}",
                       "**Type**: " \o Show(args, "workItemType"),
                       "**Title**: " \o Show(args, "title"),
                       "**URL**: ${workItem.url}",
                       CondLine(args, "description", "**Description**: ")>>, val))
    [] name = "update_work_item" ->
         FmtOk(Block(<<"[OK] Work item ${workItem.id} updated successfully!",
                       "**Updated fields**:",
                       IF Truthy(Arg(args, "fields")) THEN Show(args, "fields") ELSE "",
                       CondLine(args, "comment", "**Comment**: ")>>, val))
    [] name = "assign_work_item" ->
         FmtOk(Block(<<"[OK] Work item ${workItem.id} assigned to " \o Show(args, "assignee")
                          \o " successfully!",
                       CondLine(args, "comment", "**Comment**: ")>>, val))
    [] name = "get_pull_request" ->
         FmtOk(Block(<<"## Pull Request ${pr.pullRequestId}", "**Title**: ${pr.title}",
                       IF val.full THEN "**Repository**: ${pr.repository.name}"
                                   ELSE "**Repository**: ",
                       "**Status**: ${pr.status}",
                       IF val.full
                         THEN "**Created By**: ${pr.createdBy.displayName} (${pr.createdBy.uniqueName})"
                         ELSE "**Created By**:  ()",
                       "**Created**: ${pr.creationDate}", "**Source**: ${pr.sourceRefName}",
                       "**Target**: ${pr.targetRefName}", "${pr.description}">>, val))
    [] name = "get_wiki_page" ->
         FmtOk(Block(<<"## Wiki Page: " \o (IF Truthy(Arg(args, "path")) THEN Show(args, "path") ELSE "/"),
                       "${content}">>, val))
    [] name = "get_current_user" ->
         IF val.shape = "undefined"
           THEN FmtFail(TypeError("user.id"))
           ELSE FmtOk(Block(<<"## Current User", "**ID**: ${user.id}",
                              "**Display Name**: ${user.displayName}",
                              "**Unique Name**: ${user.uniqueName}",
                              "**Email**: ${user.email || 'N/A'}">>, val))
    [] name = "create_pull_request" ->
         FmtOk(Block(<<"[OK] Pull request created successfully!", "**ID**: ${pr.pullRequestId}",
                       "**Title**: " \o Show(args, "title"),
                       "**Repository**: ${pr.repository?.name || ''}",
                       "**Source**: " \o Show(args, "sourceBranch"),
                       "**Target**: " \o Show(args, "targetBranch"),
                       "**Status**: ${pr.status}", "**URL**: ${pr.url || 'N/A'}",
                       CondLine(args, "description", "**Description**: ")>>, val))
    [] name = "get_file_content" ->
         FmtOk(Block(<<"## File: " \o Show(args, "path"), "[fence]", "${content}", "[fence]">>, val))

ChatBlockNames ==
  {"create_work_item", "update_work_item", "assign_work_item", "get_pull_request",
   "get_wiki_page", "get_current_user", "create_pull_request", "get_file_content"}

\* The if / else-if chain of /api/chat, ending in the JSON fallback.
ChatFormat(name, val, args) ==
  CASE name \in DOMAIN ChatListTemplate ->
         IF name = "get_identity_ids"
           THEN FormatIdentities(ChatListTemplate[name], val)
           ELSE IF name \in ChatStrictRows
                  THEN FormatStrictList(ChatListTemplate[name], val)
                  ELSE FormatList(ChatListTemplate[name], val)
    [] name \in ChatBlockNames -> ChatBlock(name, val, args)
    [] OTHER -> FmtOk(Json(val))

\* ---------------------------------------------------------------------------
\* Handlers
\* ---------------------------------------------------------------------------
MissingArgument(msg) == [kind |-> "missing_argument", msg |-> msg, status |-> 0]
UnknownTool(msg) == [kind |-> "unknown_tool", msg |-> msg, status |-> 0]
ChatError(msg) == [kind |-> "chat", msg |-> msg, status |-> 0]

\* A caller-visible response.  code is the HTTP status (0 on the MCP transport),
\* text the formatted result, err the error reported, toolUsed the `tool_used`
\* of a chat response ("" for null), modelCalls the number of model calls made
\* and fnResult the function message given to the second model call.
\* offered are the function names given to the first model call, choice what
\* that call returned and events the steps of a chat turn in the order the
\* handler takes them.
Response(site, isError, code, err, text) ==
  [site |-> site, isError |-> isError, code |-> code, err |-> err, text |-> text,
   toolUsed |-> "", modelCalls |-> 0, fnResult |-> NoFmt,
   offered |-> {}, choice |-> "", events |-> <<>>]

\* No client method was called.
NoCall == [ok |-> FALSE, val |-> Undefined, err |-> NoError, reqs |-> <<>>]

\* What a handler did: its response, the client methods it called (with the
\* positional arguments), what the client returned or threw, and the requests
\* the client issued.
Done(resp, calls, r) ==
  [resp |-> resp, calls |-> calls, reqs |-> r.reqs,
   ret |-> [ok |-> r.ok, val |-> r.val, err |-> r.err]]

\* One client call: the positional arguments the handler passed and the values
\* the method used for them.
Call(method, passed) ==
  [method |-> method, passed |-> passed, used |-> Resolve(method, passed)]

\* The catch clause without `isError: true`.
McpCatch_NotFlagged(err) == Response("mcp", FALSE, 0, err, NoFmt)

\* catch (error) { return { content: [{ text: `Error: ${error.message}` }], isError: true } }
McpCatch(err) == Response("mcp", TRUE, 0, err, NoFmt)

\* The `if (!a || !b) throw` test of a CallTool case.
McpRejects(c, args) == \E i \in DOMAIN c.checked : ~Truthy(Arg(args, c.checked[i]))

\* The CallToolRequestSchema handler.
McpCallTool(name, args, o1, o2) ==
  IF name \notin McpCases
    THEN Done(McpCatch(UnknownTool("Unknown tool: " \o name)), <<>>, NoCall)
    ELSE LET c == McpSwitch[name]
         IN IF McpRejects(c, args)
              THEN Done(McpCatch(MissingArgument(c.msg)), <<>>, NoCall)
              ELSE LET passed == PassArgs(c.argv, args)
                       r == ClientCall(c.method, passed, o1, o2)
                       calls == <<Call(c.method, passed)>>
                   IN IF ~r.ok
                        THEN Done(McpCatch(r.err), calls, r)
                        ELSE LET f == McpFormat(name, r.val, args)
                             IN IF f.ok
                                  THEN Done(Response("mcp", FALSE, 0, NoError, f.fmt), calls, r)
                                  ELSE Done(McpCatch(f.err), calls, r)

\* What the process reads from its environment for the client.  orgUrl is the
\* value of AZURE_DEVOPS_ORG_URL: absent, present without an organization
\* segment after dev.azure.com/, or well formed.
Environments == {[orgUrl |-> u] : u \in {"absent", "malformed", "valid"}}

ConfigurationError(msg) == [kind |-> "configuration", msg |-> msg, status |-> 0]

\* A constructor that accepts whatever the environment holds.
Construct_NoUrlCheck(e) == [ok |-> TRUE, err |-> NoError]

\* new AzureDevOpsClient(): throws when the URL is not defined or does not
\* match /dev\.azure\.com\/([^\/]+)/.
Construct(e) ==
  CASE e.orgUrl = "absent" ->
         [ok |-> FALSE,
          err |-> ConfigurationError("AZURE_DEVOPS_ORG_URL is not defined in environment variables")]
    [] e.orgUrl = "malformed" ->
         [ok |-> FALSE,
          err |-> ConfigurationError("Invalid AZURE_DEVOPS_ORG_URL format. Expected https://dev.azure.com/{organization}")]
    [] OTHER -> [ok |-> TRUE, err |-> NoError]

\* A catch clause that answers a fixed message in place of error.message.
HttpCatch_FixedMessage(site, err) ==
  Response(site, TRUE, 500, ChatError("Internal server error"), NoFmt)

\* catch (error) { res.status(500).json({ error: error.message }) }
HttpCatch(site, err) == Response(site, TRUE, 500, err, NoFmt)

\* The POST /api/tools/:name handler.  It constructs a client of its own from
\* the environment `e` before the switch.
HttpCallTool(e, name, args, o1, o2) ==
  IF name \notin ToolNames
    THEN Done(Response("http", TRUE, 404, UnknownTool("Tool not found"), NoFmt), <<>>, NoCall)
    ELSE IF ~Construct(e).ok
      THEN Done(HttpCatch("http", Construct(e).err), <<>>, NoCall)
    ELSE IF name \notin HttpCases
      THEN Done(Response("http", TRUE, 400, UnknownTool("Unsupported tool"), NoFmt), <<>>, NoCall)
      ELSE LET c == HttpSwitch[name]
               passed == PassArgs(c.argv, args)
               r == ClientCall(c.method, passed, o1, o2)
               calls == <<Call(c.method, passed)>>
           IN IF ~r.ok
                THEN Done(HttpCatch("http", r.err), calls, r)
                ELSE LET f == HttpFormat(name, r.val, args)
                     IN IF f.ok
                          THEN Done(Response("http", FALSE, 200, NoError, f.fmt), calls, r)
                          ELSE Done(HttpCatch("http", f.err), calls, r)

\* The answers of the language model: the first call throws, returns a choice
\* without a message, returns plain text, or returns a function call (whose
\* arguments may fail JSON.parse, leaving {}); the second call throws or answers.
FirstModelAnswers == {"throw", "no_message", "text", "call", "call_bad_json"}
SecondModelAnswers == {"throw", "ok"}

\* const functions = tools.map(tool => ({ name: tool.name, ... }))
Functions == ToolNames

\* A chat response after `events`: every "model" event is one call of
\* openai.chat.completions.create, the first of them carrying `functions`.
Turn(resp, choice, events) ==
  [resp EXCEPT !.events = events,
               !.choice = choice,
               !.modelCalls = Cardinality({i \in DOMAIN events : events[i] \in {"model1", "model2"}}),
               !.offered = IF events = <<>> THEN {} ELSE Functions]

\* A no-function-call answer that still reports a tool.
ChatPlainAnswer_ReportsTool ==
  [Turn(Response("chat", FALSE, 200, NoError, Msg("${choice.message.content}")),
        "text", <<"model1", "respond">>) EXCEPT !.toolUsed = "list_projects"]

\* return res.json({ result: choice.message.content, tool_used: null })
ChatPlainAnswer ==
  Turn(Response("chat", FALSE, 200, NoError, Msg("${choice.message.content}")),
       "text", <<"model1", "respond">>)

\* The /api/chat handler when the first model call does not select a function.
ChatDirect(messageOk, first) ==
  IF ~messageOk
    THEN Done(Response("chat", TRUE, 400, ChatError("Message is required"), NoFmt), <<>>, NoCall)
    ELSE CASE first = "throw" ->
                Done(Turn(HttpCatch("chat", ChatError("model call failed")), "throw", <<"model1">>),
                     <<>>, NoCall)
           [] first = "no_message" ->
                Done(Turn(Response("chat", TRUE, 500, ChatError("No response from OpenAI"), NoFmt),
                          "no_message", <<"model1">>), <<>>, NoCall)
           [] OTHER ->
                Done(ChatPlainAnswer, <<>>, NoCall)

\* The /api/chat handler when the first model call selects function `name`.
\* It constructs a client of its own from the environment `e` before the switch.
ChatFunctionCall(e, name, args, o1, o2, second) ==
  IF ~Construct(e).ok
    THEN Done(Turn(HttpCatch("chat", Construct(e).err), "function_call", <<"model1">>),
              <<>>, NoCall)
  ELSE IF name \notin ChatCases
    THEN Done(Turn(Response("chat", TRUE, 400, UnknownTool("Unknown function: " \o name), NoFmt),
                   "function_call", <<"model1">>), <<>>, NoCall)
    ELSE LET c == ChatSwitch[name]
             passed == PassArgs(c.argv, args)
             r == ClientCall(c.method, passed, o1, o2)
             calls == <<Call(c.method, passed)>>
         IN IF ~r.ok
              THEN Done(Turn(HttpCatch("chat", r.err), "function_call", <<"model1", "dispatch">>), calls, r)
              ELSE LET f == ChatFormat(name, r.val, args)
                   IN IF ~f.ok
                        THEN Done(Turn(HttpCatch("chat", f.err), "function_call",
                                       <<"model1", "dispatch", "format">>),
                                  calls, r)
                        ELSE IF second = "throw"
                          THEN Done([Turn(HttpCatch("chat", ChatError("model call failed")),
                                          "function_call",
                                          <<"model1", "dispatch", "format", "model2">>)
                                       EXCEPT !.fnResult = f.fmt], calls, r)
                          ELSE Done([Turn(Response("chat", FALSE, 200, NoError, Msg("${finalMessage.content}")),
                                          "function_call",
                                          <<"model1", "dispatch", "format", "model2", "respond">>)
                                       EXCEPT !.fnResult = f.fmt, !.toolUsed = name],
                                    calls, r)

\* ---------------------------------------------------------------------------
\* State machine
\* ---------------------------------------------------------------------------
VARIABLES
  env,          \* the environment the process was started with
  pc,           \* "boot": the module is loading; "crashed": loading threw;
                \* "idle": waiting for a request; "done": a response was produced
  req,          \* the request being served: call site, tool name, argument object
  calls,        \* client methods called while serving it
  reqs,         \* requests the client issued while serving it
  ret,          \* what the client method returned or threw
  resp,         \* the response
  prevUnknown,  \* the previous invocation named a tool that does not exist
  \* a session of invocations against one backend (SpecSession)
  store,        \* number of changes the backend has applied to its resources
  mutated,      \* a mutation tool was invoked in this session
  registry,     \* the tool registry of the process
  listed,       \* the descriptors the catalog query being served returned
  \* invocations in flight at the same time (SpecConcurrent)
  inv,          \* per invocation: its phase, what was sent and answered, the response
  frames,       \* the local variables of the handler activations
  \* one formatting input formatted on every call site (SpecFormat)
  fmtIn,        \* (toolName, payload, arguments)
  fmtOut,       \* per call site, the output of its formatting chain
  \* the chat front end (SpecFrontend)
  conversations,         \* Home: conversations
  activeConversationId,  \* Home: activeConversationId
  selectedTool,          \* Home: selectedTool ("" for null)
  loading,               \* Home: loading
  sends,                 \* the calls of handleSendMessage so far, with their requests
  created                \* number of conversations created so far

serverVars == <<env, pc, req, calls, reqs, ret, resp, prevUnknown>>

sessionVars == <<store, mutated, registry, listed>>
concurrentVars == <<inv, frames>>
formatVars == <<fmtIn, fmtOut>>
frontVars == <<conversations, activeConversationId, selectedTool, loading, sends, created>>

vars == <<serverVars, sessionVars, concurrentVars, formatVars, frontVars>>

\* Each specification follows one group of variables; the groups it does not
\* follow stay as they are here.
SessionParked == store = 0 /\ mutated = FALSE /\ registry = <<>> /\ listed = <<>>
ConcurrentParked == inv = <<>> /\ frames = <<>>
FormatParked == fmtIn = <<>> /\ fmtOut = <<>>
FrontParked ==
  /\ conversations = <<>>
  /\ activeConversationId = ""
  /\ selectedTool = ""
  /\ loading = FALSE
  /\ sends = <<>>
  /\ created = 0

NoReq == [site |-> "", name |-> "", args |-> NoArgs]
NoResp == Response("", FALSE, 0, NoError, NoFmt)
NoRet == [ok |-> FALSE, val |-> Undefined, err |-> NoError]

\* The server's variables while no request is being served.
Waiting(at) ==
  /\ pc = at
  /\ req = NoReq
  /\ calls = <<>>
  /\ reqs = <<>>
  /\ ret = NoRet
  /\ resp = NoResp
  /\ prevUnknown = FALSE

Init ==
  /\ env \in Environments
  /\ Waiting("boot")
  /\ SessionParked /\ ConcurrentParked /\ FormatParked /\ FrontParked

\* Module load: `const azureClient = new AzureDevOpsClient()` runs before any
\* handler is registered; an exception there ends the process.
Load ==
  /\ pc = "boot"
  /\ pc' = IF Construct(env).ok THEN "idle" ELSE "crashed"
  /\ UNCHANGED <<env, req, calls, reqs, ret, resp, prevUnknown>>

Start ==
  /\ Load
  /\ UNCHANGED <<sessionVars, concurrentVars, formatVars, frontVars>>

SecondOutcomes(name) ==
  IF name \in {"query_work_items", "list_work_item_query_results"} THEN Outcomes ELSE {Unused}

\* The server's variables after a handler ran.
Serve(site, name, args, d) ==
  /\ pc' = "done"
  /\ req' = [site |-> site, name |-> name, args |-> args]
  /\ calls' = d.calls
  /\ reqs' = d.reqs
  /\ ret' = d.ret
  /\ resp' = d.resp
  /\ UNCHANGED <<env, prevUnknown>>

Finish(site, name, args, d) ==
  /\ Serve(site, name, args, d)
  /\ UNCHANGED <<sessionVars, concurrentVars, formatVars, frontVars>>

\* server.setRequestHandler(CallToolRequestSchema, ...)
CallTool ==
  /\ pc = "idle"
  /\ \E name \in RequestNames : \E args \in ArgSpace(name) :
       \E o1 \in Outcomes : \E o2 \in SecondOutcomes(name) :
         LET d == McpCallTool(name, args, o1, o2)
         IN ScriptFits(d, o1, o2) /\ Finish("mcp", name, args, d)

\* app.post('/api/tools/:name', ...)
PostTool ==
  /\ pc = "idle"
  /\ \E name \in RequestNames : \E args \in ArgSpace(name) :
       \E o1 \in Outcomes : \E o2 \in SecondOutcomes(name) :
         LET d == HttpCallTool(env, name, args, o1, o2)
         IN ScriptFits(d, o1, o2) /\ Finish("http", name, args, d)

\* app.post('/api/chat', ...)
Chat ==
  /\ pc = "idle"
  /\ \/ \E messageOk \in BOOLEAN : \E first \in {"throw", "no_message", "text"} :
          /\ ~messageOk => first = "text"
          /\ Finish("chat", "", NoArgs, ChatDirect(messageOk, first))
     \/ \E name \in RequestNames : \E args \in ArgSpace(name) :
          \E second \in SecondModelAnswers :
            \E o1 \in Outcomes : \E o2 \in SecondOutcomes(name) :
              LET d == ChatFunctionCall(env, name, args, o1, o2, second)
              IN /\ d.resp.modelCalls < 2 => second = "ok"
                 /\ ScriptFits(d, o1, o2)
                 /\ Finish("chat", name, args, d)
     \* function_call.arguments is not JSON: functionArgs = {}
     \/ \E name \in RequestNames : \E second \in SecondModelAnswers :
          \E o1 \in Outcomes : \E o2 \in SecondOutcomes(name) :
            LET d == ChatFunctionCall(env, name, NoArgs, o1, o2, second)
            IN /\ d.resp.modelCalls < 2 => second = "ok"
               /\ ScriptFits(d, o1, o2)
               /\ Finish("chat", name, NoArgs, d)

\* The response is delivered and the server waits for the next request.
Deliver ==
  /\ pc = "done"
  /\ pc' = "idle"
  /\ prevUnknown' = (resp.err.kind = "unknown_tool")
  /\ req' = NoReq
  /\ calls' = <<>>
  /\ reqs' = <<>>
  /\ ret' = NoRet
  /\ resp' = NoResp
  /\ UNCHANGED env

NextRequest ==
  /\ Deliver
  /\ UNCHANGED <<sessionVars, concurrentVars, formatVars, frontVars>>

Next == Start \/ CallTool \/ PostTool \/ Chat \/ NextRequest

Spec == Init /\ [][Next]_vars


\* ---------------------------------------------------------------------------
\* A session: catalog queries and invocations against one backend
\* ---------------------------------------------------------------------------
\* Largest number of changes of the backend's resources that a session makes.
MaxWrites == 1

Sites == {"mcp", "http", "chat"}

\* One invocation on a call site (on /api/chat: the turn in which the model
\* selects `name` with `args` and answers the second call).
Handle(site, e, name, args, o1, o2) ==
  CASE site = "mcp" -> McpCallTool(name, args, o1, o2)
    [] site = "http" -> HttpCallTool(e, name, args, o1, o2)
    [] OTHER -> ChatFunctionCall(e, name, args, o1, o2, "ok")

\* Backend answers of a session: a failure, or a payload of at most one record.
SessionOutcomes ==
  {o \in Outcomes : \A i \in DOMAIN o.rows : i = 1 /\ o.rows[i].nested /\ o.rows[i].id \in BareIds}

\* The POST endpoints that run a query and change nothing: _apis/wit/wiql and
\* the two search endpoints.
QueryEndpoints == {"queryWorkItems", "searchCode", "searchWorkItems"}

\* A request that asks the backend to create or change a resource.
IsWrite(r) ==
  \/ r.verb \in {"PATCH", "PUT", "DELETE"}
  \/ r.verb = "POST" /\ r.endpoint \notin QueryEndpoints

\* The backend applies the write requests it answers with success.
Applied(r) == {i \in DOMAIN r : IsWrite(r[i]) /\ r[i].status = 200}

\* A catalog answer that leaves out the first descriptor.
Catalog_WithoutFirst(reg) == Tail(reg)

\* async () => ({ tools })  /  res.json({ tools })
Catalog(reg) == reg

SessionInit ==
  /\ env = [orgUrl |-> "valid"]
  /\ Waiting("boot")
  /\ store = 0
  /\ mutated = FALSE
  /\ registry = tools
  /\ listed = <<>>
  /\ ConcurrentParked /\ FormatParked /\ FrontParked

SessionStart ==
  /\ Load
  /\ UNCHANGED <<sessionVars, concurrentVars, formatVars, frontVars>>

\* The tool catalog query on one transport: ListTools on MCP, GET /api/tools on
\* HTTP.  Neither touches the client.
CatalogQuery(site) ==
  /\ pc = "idle"
  /\ Serve(site, "tools/list", NoArgs,
           Done(Response(site, FALSE, IF site = "http" THEN 200 ELSE 0, NoError, NoFmt),
                <<>>, NoCall))
  /\ listed' = Catalog(registry)
  /\ UNCHANGED <<store, mutated, registry, concurrentVars, formatVars, frontVars>>

\* server.setRequestHandler(ListToolsRequestSchema, ...)
ListToolsRequest == CatalogQuery("mcp")

\* app.get('/api/tools', ...)
GetApiTools == CatalogQuery("http")

\* One tool invocation or chat turn; the backend applies its writes.
Invoke ==
  /\ pc = "idle"
  /\ \E site \in Sites : \E name \in RequestNames : \E args \in ArgSpace(name) :
       \E o1 \in SessionOutcomes : \E o2 \in IF name \in {"query_work_items", "list_work_item_query_results"}
                                              THEN SessionOutcomes ELSE {Unused} :
         LET d == Handle(site, env, name, args, o1, o2)
         IN /\ ScriptFits(d, o1, o2)
            /\ store + Cardinality(Applied(d.reqs)) <= MaxWrites
            /\ Serve(site, name, args, d)
            /\ store' = store + Cardinality(Applied(d.reqs))
            /\ mutated' = (mutated \/ name \in {"create_work_item", "update_work_item",
                                               "assign_work_item", "create_pull_request"})
  /\ listed' = <<>>
  /\ UNCHANGED <<registry, concurrentVars, formatVars, frontVars>>

SessionDeliver ==
  /\ Deliver
  /\ listed' = <<>>
  /\ UNCHANGED <<store, mutated, registry, concurrentVars, formatVars, frontVars>>

SessionNext == SessionStart \/ ListToolsRequest \/ GetApiTools \/ Invoke \/ SessionDeliver

SpecSession == SessionInit /\ [][SessionNext]_vars

\* ---------------------------------------------------------------------------
\* The formatting chains as functions of (toolName, payload, arguments)
\* ---------------------------------------------------------------------------
\* Number of times one input is formatted.
MaxFormats == 2

\* The payloads the client can hand to the formatter for a tool and arguments.
Payloads(name, args) ==
  LET c == McpSwitch[name]
      results == {ClientCall(c.method, PassArgs(c.argv, args), o1, o2) :
                    o1 \in SessionOutcomes, o2 \in SessionOutcomes}
  IN {r.val : r \in {x \in results : x.ok}}

FormatInputs ==
  UNION {UNION {{[name |-> n, args |-> a, val |-> v] : v \in Payloads(n, a)} :
                  a \in ArgSpace(n)} : n \in ToolNames \cap McpCases}

\* The formatting chain of one call site applied to an input.
FormatAt(site, in) ==
  CASE site = "mcp" -> McpFormat(in.name, in.val, in.args)
    [] site = "http" -> HttpFormat(in.name, in.val, in.args)
    [] OTHER -> ChatFormat(in.name, in.val, in.args)

FormatInit ==
  /\ env = [orgUrl |-> "valid"]
  /\ Waiting("idle")
  /\ fmtIn \in FormatInputs
  /\ fmtOut = <<>>
  /\ SessionParked /\ ConcurrentParked /\ FrontParked

\* One more formatting of the input, on any call site.
Format ==
  /\ Len(fmtOut) < MaxFormats
  /\ \E site \in Sites :
       fmtOut' = Append(fmtOut, [site |-> site, out |-> FormatAt(site, fmtIn)])
  /\ UNCHANGED <<fmtIn, serverVars, sessionVars, concurrentVars, frontVars>>

FormatNext == Format

SpecFormat == FormatInit /\ [][FormatNext]_vars

\* ---------------------------------------------------------------------------
\* Invocations in flight at the same time
\* ---------------------------------------------------------------------------
\* Number of invocations that can be in flight at once.
MaxInFlight == 2

Invocations == 1..MaxInFlight

\* The requests sent concurrently: a read and a mutation on every call site,
\* the mutation with and without its optional description.
ConcurrentNames == {"list_projects", "create_work_item"}

ConcurrentArgs(name) ==
  {a \in ArgSpace(name) :
     \A p \in DOMAIN a :
       /\ p \in Required(name) => a[p] = "truthy"
       /\ p \notin Required(name) => a[p] \in {"undefined", "truthy"}
       /\ p \notin Required(name) \cup {"description"} => a[p] = "undefined"}

ConcurrentRequests ==
  UNION {{[site |-> s, name |-> n, args |-> a] : s \in Sites, a \in ConcurrentArgs(n)} :
           n \in ConcurrentNames}

\* The backend answers with one record or with a server error.
ConcurrentOutcomes ==
  {o \in SessionOutcomes : o.status = 500 \/ (o.has /\ Len(o.rows) = 1)}

\* Handler activations that all keep their locals in one module-level place.
Slot_Shared(i) == 1

\* The activation record of invocation i: `name`, `args`, `rawResult` and
\* `formatted` are const/let locals of the async handler, one set per call.
Slot(i) == i

NoFrame == [req |-> NoReq, answer |-> Unused]
Free == [phase |-> "free", sent |-> NoReq, answer |-> Unused, out |-> NoResp]

ConcurrentInit ==
  /\ env = [orgUrl |-> "valid"]
  /\ Waiting("idle")
  /\ inv = [i \in Invocations |-> Free]
  /\ frames = [i \in Invocations |-> NoFrame]
  /\ SessionParked /\ FormatParked /\ FrontParked

\* A request arrives and a handler activation starts: it reads name and
\* arguments into its locals and awaits the client call.
Receive(i) ==
  /\ inv[i].phase = "free"
  /\ \E r \in ConcurrentRequests :
       /\ inv' = [inv EXCEPT ![i] = [Free EXCEPT !.phase = "awaiting", !.sent = r]]
       /\ frames' = [frames EXCEPT ![Slot(i)] = [req |-> r, answer |-> Unused]]
  /\ UNCHANGED <<serverVars, sessionVars, formatVars, frontVars>>

\* The backend answers the activation's request: `rawResult = await ...`.
Resume(i) ==
  /\ inv[i].phase = "awaiting"
  /\ \E o \in ConcurrentOutcomes :
       /\ inv' = [inv EXCEPT ![i].phase = "answered", ![i].answer = o]
       /\ frames' = [frames EXCEPT ![Slot(i)].answer = o]
  /\ UNCHANGED <<serverVars, sessionVars, formatVars, frontVars>>

\* The activation formats from its locals and responds.
Respond(i) ==
  /\ inv[i].phase = "answered"
  /\ LET f == frames[Slot(i)]
     IN inv' = [inv EXCEPT ![i].phase = "responded",
                           ![i].out = Handle(f.req.site, env, f.req.name, f.req.args,
                                             f.answer, Unused).resp]
  /\ UNCHANGED <<frames, serverVars, sessionVars, formatVars, frontVars>>

\* The handler has returned; its locals are gone.
Return(i) ==
  /\ inv[i].phase = "responded"
  /\ inv' = [inv EXCEPT ![i] = Free]
  /\ frames' = [frames EXCEPT ![Slot(i)] = NoFrame]
  /\ UNCHANGED <<serverVars, sessionVars, formatVars, frontVars>>

ConcurrentNext ==
  \E i \in Invocations : Receive(i) \/ Resume(i) \/ Respond(i) \/ Return(i)

SpecConcurrent == ConcurrentInit /\ [][ConcurrentNext]_vars

\* ---------------------------------------------------------------------------
\* The chat front end (Home and ChatInput)
\* ---------------------------------------------------------------------------
\* Largest number of messages the user sends.
MaxSends == 2
\* Largest number of conversations created after the initial one.
MaxChats == 2

\* Conversation ids are numbers here: 1 is the initial conversation '1', 0 the
\* fixed id 'empty', and DateNow(k) the k-th value of Date.now().toString().
EmptyId == 0
DateNow(k) == 1000 + k

\* A conversation: its id, its messages, and `uid`, which tells apart two
\* conversation objects that carry the same id.  A message records its role and
\* the send that produced it (0: the greeting).
Conversation(id, uid, messages) == [id |-> id, uid |-> uid, messages |-> messages]
Message(role, send) == [role |-> role, send |-> send]

\* The tools the sidebar offers once GET /api/tools has answered.
SidebarTools == {"list_projects"}

Ids(convs) == {convs[i].id : i \in DOMAIN convs}

\* conversations.filter(c => c.id !== id)
Without(convs, id) == SelectSeq(convs, LAMBDA c : c.id # id)

\* prev.map(conv => conv.id === id ? {...conv, messages: [...conv.messages, m]} : conv)
AppendTo(convs, id, m) ==
  [i \in DOMAIN convs |->
     IF convs[i].id = id
       THEN [convs[i] EXCEPT !.messages = Append(convs[i].messages, m)]
       ELSE convs[i]]

\* conversations.find(c => c.id === activeConversationId)
HasActive == activeConversationId \in Ids(conversations)
ActiveConversation ==
  conversations[CHOOSE i \in DOMAIN conversations :
                  /\ conversations[i].id = activeConversationId
                  /\ \A j \in DOMAIN conversations :
                       conversations[j].id = activeConversationId => i <= j]

\* The requests that were sent and have not completed.
Outstanding == {k \in DOMAIN sends : sends[k].state = "outstanding"}

FrontInit ==
  /\ conversations = <<Conversation(1, 1, <<Message("assistant", 0)>>)>>
  /\ activeConversationId = 1
  /\ selectedTool = ""
  /\ loading = FALSE
  /\ sends = <<>>
  /\ created = 1
  /\ env = [orgUrl |-> "valid"]
  /\ Waiting("idle")
  /\ SessionParked /\ ConcurrentParked /\ FormatParked

\* handleSendMessage(content) with a non-blank content, up to its await: the
\* user message goes to the active conversation (one is created when there is
\* none), loading is set and the request leaves.
handleSendMessage ==
  /\ Len(sends) < MaxSends
  /\ LET k == Len(sends) + 1
         fresh == Conversation(DateNow(created + 1), created + 1, <<>>)
         convs == IF HasActive THEN conversations ELSE <<fresh>> \o conversations
         conversationId == IF HasActive THEN activeConversationId ELSE fresh.id
         origin == IF HasActive THEN ActiveConversation.uid ELSE fresh.uid
     IN /\ conversations' = AppendTo(convs, conversationId, Message("user", k))
        /\ activeConversationId' = conversationId
        /\ created' = IF HasActive THEN created ELSE created + 1
        /\ sends' = Append(sends, [conversationId |-> conversationId, origin |-> origin,
                                   tool |-> selectedTool, state |-> "outstanding"])
  /\ loading' = TRUE
  /\ UNCHANGED <<selectedTool, serverVars, sessionVars, concurrentVars, formatVars>>

\* ChatInput.handleSubmit: if (message.trim() && !disabled) onSendMessage(message),
\* where disabled={loading}.
Submit ==
  /\ ~loading
  /\ handleSendMessage

\* WelcomeScreen is rendered when there is no active conversation or it has no
\* message; clicking an example calls handleSendMessage(query) directly.
handleExampleClick ==
  /\ ~HasActive \/ ActiveConversation.messages = <<>>
  /\ handleSendMessage

handleNewChat ==
  /\ created < 1 + MaxChats
  /\ conversations' = <<Conversation(DateNow(created + 1), created + 1, <<>>)>> \o conversations
  /\ activeConversationId' = DateNow(created + 1)
  /\ created' = created + 1
  /\ selectedTool' = ""
  /\ UNCHANGED <<loading, sends, serverVars, sessionVars, concurrentVars, formatVars>>

\* Deleting the active conversation activates the first remaining one, or
\* replaces the list by one new conversation with the id 'empty'.
handleDeleteConversation(id) ==
  /\ id \in Ids(conversations)
  /\ LET remaining == Without(conversations, id)
     IN IF activeConversationId = id /\ remaining = <<>>
          THEN /\ created < 1 + MaxChats
               /\ conversations' = <<Conversation(EmptyId, created + 1, <<>>)>>
               /\ activeConversationId' = EmptyId
               /\ created' = created + 1
          ELSE /\ conversations' = remaining
               /\ activeConversationId' =
                    IF activeConversationId = id THEN remaining[1].id ELSE activeConversationId
               /\ UNCHANGED created
  /\ UNCHANGED <<selectedTool, loading, sends, serverVars, sessionVars, concurrentVars, formatVars>>

handleSelectConversation(id) ==
  /\ id \in Ids(conversations)
  /\ activeConversationId' = id
  /\ selectedTool' = ""
  /\ UNCHANGED <<conversations, loading, sends, created,
                 serverVars, sessionVars, concurrentVars, formatVars>>

handleSelectTool(toolName) ==
  /\ selectedTool' = toolName
  /\ UNCHANGED <<conversations, activeConversationId, loading, sends, created,
                 serverVars, sessionVars, concurrentVars, formatVars>>

\* The awaited axios.post of send k settles: the assistant message (resolved)
\* or the system error message (rejected) is appended to the conversation whose
\* id the send captured; finally loading and selectedTool are reset.
Complete(k, ok) ==
  /\ k \in Outstanding
  /\ conversations' = AppendTo(conversations, sends[k].conversationId,
                               Message(IF ok THEN "assistant" ELSE "system", k))
  /\ sends' = [sends EXCEPT ![k].state = IF ok THEN "succeeded" ELSE "failed"]
  /\ loading' = FALSE
  /\ selectedTool' = ""
  /\ UNCHANGED <<activeConversationId, created,
                 serverVars, sessionVars, concurrentVars, formatVars>>

FrontNext ==
  \/ Submit
  \/ handleExampleClick
  \/ handleNewChat
  \/ \E id \in Ids(conversations) : handleDeleteConversation(id)
  \/ \E id \in Ids(conversations) : handleSelectConversation(id)
  \/ \E t \in SidebarTools : handleSelectTool(t)
  \/ \E k \in DOMAIN sends : \E ok \in BOOLEAN : Complete(k, ok)

SpecFrontend == FrontInit /\ [][FrontNext]_vars
\* ---------------------------------------------------------------------------
\* Properties
\* ---------------------------------------------------------------------------
\* The invocation named a tool (a chat turn without a function call names none).
NamesTool == pc = "done" /\ req.name # ""

\* The backend answers of the invocation, as the requests recorded them.
Answer(k) == IF Len(reqs) >= k THEN reqs[k].answer ELSE Unused

\* The formatted text of the invocation: the text of the MCP result, the
\* `result` of POST /api/tools/:name, the function message of a chat turn.
Formatted == IF req.site = "chat" THEN resp.fnResult ELSE resp.text

\* C1: on every call site, an invocation of a registered tool that omits one of
\* its declared-required parameters ends in an error result and no client
\* method has been called.
OmitsRequired ==
  /\ NamesTool
  /\ req.name \in ToolNames
  /\ \E p \in Required(req.name) : Arg(req.args, p) = "undefined"

C1_MissingRequiredFailsFast == OmitsRequired => (resp.isError /\ calls = <<>>)

\* C2: the names in the registry are exactly the names each of the three
\* switches has a case for, and an invocation is answered "unknown tool" exactly
\* when its name is not in the registry.
C2_RegistryDispatcherSymmetry ==
  /\ ToolNames = McpCases
  /\ ToolNames = HttpCases
  /\ ToolNames = ChatCases
  /\ NamesTool => ((resp.err.kind = "unknown_tool") <=> (req.name \notin ToolNames))

C2_Witness ==
  /\ pc = "done" /\ req.site = "chat" /\ req.name = "list_work_item_query_results"
  /\ calls # <<>> /\ calls[1].method = "getQueryResults"
  /\ ~resp.isError

\* C3: an invocation of a registered tool in which every required parameter is
\* present with a value of its declared type reaches the client and is never
\* rejected as a missing argument.
AllRequiredPresent ==
  /\ NamesTool
  /\ req.name \in ToolNames
  /\ \A p \in Required(req.name) : Arg(req.args, p) # "undefined"

C3_PresentRequiredReachesClient ==
  AllRequiredPresent => (calls # <<>> /\ resp.err.kind # "missing_argument")

\* The parameters a missing-argument message names: each message of the
\* CallTool switch lists exactly the parameters its test reads.
NamedInError ==
  IF resp.err.kind = "missing_argument" THEN Range(McpSwitch[req.name].checked) ELSE {}

\* C4: when exactly one required parameter is absent, the error surfaced names
\* that parameter and no other.
OmitsExactly(p) ==
  /\ NamesTool
  /\ req.name \in ToolNames
  /\ p \in Required(req.name)
  /\ Arg(req.args, p) = "undefined"
  /\ \A q \in PropNames(req.name) \ {p} : Arg(req.args, q) = "truthy"

C4_ErrorNamesExactlyTheMissingParameter ==
  \A p \in UNION {PropNames(n) : n \in ToolNames} :
    OmitsExactly(p) => (resp.err.kind = "missing_argument" /\ NamedInError = {p})

\* C5: an invocation naming a tool that is not in the registry gets a
\* caller-visible unknown-tool error (an isError result on MCP, a 4xx status on
\* the HTTP endpoints), no client method is called and no request is issued;
\* afterwards the server accepts the next invocation.
NamesUnknownTool == NamesTool /\ req.name \notin ToolNames

C5_UnknownToolIsNonFatal ==
  /\ NamesUnknownTool =>
       /\ resp.isError
       /\ resp.err.kind = "unknown_tool"
       /\ calls = <<>>
       /\ reqs = <<>>
       /\ req.site = "mcp" => resp.code = 0
       /\ req.site \in {"http", "chat"} => resp.code \in 400..499
  /\ (pc = "idle" /\ prevUnknown) => ENABLED (CallTool \/ PostTool \/ Chat)

\* An invocation served successfully right after an unknown-tool error.
C5_Witness ==
  /\ pc = "done" /\ prevUnknown
  /\ ~resp.isError /\ calls # <<>>

\* C6: queryWorkItems submits the WIQL query first; a failed query or one that
\* yields no references issues no batch fetch (and zero references give the
\* empty sequence); references r1..rn are followed by exactly one batch fetch
\* whose ids are r1.id..rn.id in that order.
QueryCalled == pc = "done" /\ calls # <<>> /\ calls[1].method = "queryWorkItems"

C6_TwoStepQueryProtocol ==
  QueryCalled =>
    /\ Len(reqs) >= 1
    /\ reqs[1].verb = "POST"
    /\ reqs[1].endpoint = "queryWorkItems"
    /\ LET a == reqs[1].answer
       IN /\ a.status # 200 => (Len(reqs) = 1 /\ ~ret.ok)
          /\ (a.status = 200 /\ (~a.has \/ Len(a.rows) = 0)) =>
               (Len(reqs) = 1 /\ ret.ok /\ ret.val = List(<<>>))
          /\ (a.status = 200 /\ a.has /\ Len(a.rows) > 0) =>
               /\ Len(reqs) = 2
               /\ reqs[2].verb = "GET"
               /\ reqs[2].endpoint = "getWorkItems"
               /\ reqs[2].ids = [i \in DOMAIN a.rows |-> a.rows[i].id]

C6_Witness ==
  /\ QueryCalled
  /\ Len(reqs) = 2
  /\ reqs[1].answer.rows = <<Rec(7), Rec(9)>>
  /\ reqs[2].ids = <<7, 9>>

\* C7: for getTestPlans, getBoards, getTags and getVariableGroups a 404 answer
\* yields the empty sequence, and any other failure is thrown unchanged and
\* reaches the caller as that error.
OptionalLookups == {"getTestPlans", "getBoards", "getTags", "getVariableGroups"}

OptionalLookupCalled == pc = "done" /\ calls # <<>> /\ calls[1].method \in OptionalLookups

C7_Optional404IsEmpty ==
  OptionalLookupCalled =>
    /\ Len(reqs) = 1
    /\ reqs[1].status = 404 => (ret.ok /\ ret.val = List(<<>>))
    /\ reqs[1].status \notin {200, 404} =>
         /\ ~ret.ok
         /\ ret.err = HttpError(reqs[1].status)
         /\ resp.isError
         /\ resp.err = ret.err

C7_Witness ==
  /\ OptionalLookupCalled
  /\ calls[1].method = "getBoards"
  /\ reqs[1].status = 404
  /\ ret.val = List(<<>>)
  /\ req.site = "mcp" /\ ~resp.isError

\* C8: for every tool that looks up a named work item or a named repository by
\* id, a 404 from the backend reaches the caller as an error result.
MandatoryLookups ==
  {"get_work_items_by_ids", "update_work_item", "assign_work_item",
   "get_work_item_revisions", "get_work_item_links", "list_work_item_updates",
   "list_work_item_attachments", "list_work_item_comments", "list_work_item_relations",
   "list_branches", "get_pull_request", "create_pull_request", "list_commits",
   "get_file_content"}

C8_Mandatory404IsAnError ==
  (/\ NamesTool
   /\ req.name \in MandatoryLookups
   /\ \E k \in DOMAIN reqs : reqs[k].status = 404)
    => resp.isError

\* C9: for a registered tool, an argument object and backend answers, whenever
\* the three call sites all produce a formatted text, the three texts are equal.
C9_CallSitesFormatAlike ==
  (NamesTool /\ req.name \in ToolNames) =>
    LET m == McpCallTool(req.name, req.args, Answer(1), Answer(2))
        h == HttpCallTool(env, req.name, req.args, Answer(1), Answer(2))
        c == ChatFunctionCall(env, req.name, req.args, Answer(1), Answer(2), "ok")
    IN (~m.resp.isError /\ ~h.resp.isError /\ ~c.resp.isError) =>
         (m.resp.text = h.resp.text /\ h.resp.text = c.resp.fnResult)

\* The fixed empty-list messages of a tool, over the three call sites.
EmptyMessages(name) ==
  {McpListTemplate[name].empty}
    \cup (IF name \in DOMAIN HttpListTemplate THEN {HttpListTemplate[name].empty} ELSE {})
    \cup (IF name \in DOMAIN ChatListTemplate THEN {ChatListTemplate[name].empty} ELSE {})

ListTools == DOMAIN McpListTemplate

\* C10: for every list-shaped tool, when the client returns the empty sequence
\* the formatted output is that tool's fixed one-line "No ... found." message
\* and nothing else.
C10_EmptySequenceMessage ==
  (/\ NamesTool
   /\ req.name \in ListTools
   /\ ret.ok
   /\ ret.val = List(<<>>))
    => Formatted \in {Msg(m) : m \in EmptyMessages(req.name)}

\* A client method was called and threw.
ClientThrew == pc = "done" /\ calls # <<>> /\ ~ret.ok

\* C11: when the client method throws, the invocation ends with one failure
\* response that carries the thrown error (isError on MCP, status 500 on the
\* HTTP endpoints) and no formatted result; the failed request is the last
\* request issued and no endpoint is requested twice.
C11_ClientErrorSurfacesOnce ==
  ClientThrew =>
    /\ resp.isError
    /\ resp.err = ret.err
    /\ resp.text = NoFmt
    /\ resp.toolUsed = ""
    /\ req.site = "mcp" => resp.code = 0
    /\ req.site \in {"http", "chat"} => resp.code = 500
    /\ Len(calls) = 1
    /\ \A i, j \in DOMAIN reqs : i # j => reqs[i].endpoint # reqs[j].endpoint
    /\ ret.err.kind = "backend" =>
         /\ reqs # <<>>
         /\ reqs[Len(reqs)].status = ret.err.status
         /\ \A i \in 1..(Len(reqs) - 1) : reqs[i].status = 200

C11_Witness ==
  /\ ClientThrew
  /\ req.site = "http"
  /\ req.name = "get_releases"
  /\ Len(reqs) = 1
  /\ reqs[1].status = 404
  /\ resp.code = 500
  /\ resp.err = HttpError(404)

\* A chat turn in which the first model call selected a function.
ChatSelects == pc = "done" /\ req.site = "chat" /\ resp.choice = "function_call"

\* One of the two model calls threw.
ModelFailed == resp.err = ChatError("model call failed")

\* C12: in a chat turn where the selected tool's client call fails, a textual
\* function result is produced and the second model call is made with it.
C12_ToolFailureStillReachesSecondModelCall ==
  (ChatSelects /\ calls # <<>> /\ ~ret.ok) =>
    /\ resp.fnResult # NoFmt
    /\ \E i \in DOMAIN resp.events : resp.events[i] = "model2"

\* C13: in a chat turn where the model selects a registered tool (and the model
\* itself answers both calls), the steps are, once each and in this order: the
\* first model call with the whole catalog, one client call, formatting, the
\* second model call with the formatted text, and a response whose result is
\* the second model's text and whose tool_used is the selected name.
C13_ChatTurnOrder ==
  (ChatSelects /\ req.name \in ToolNames /\ ~ModelFailed) =>
    /\ resp.events = <<"model1", "dispatch", "format", "model2", "respond">>
    /\ resp.offered = ToolNames
    /\ Len(calls) = 1
    /\ calls[1].method = ChatSwitch[req.name].method
    /\ resp.fnResult # NoFmt
    /\ resp.text = Msg("${finalMessage.content}")
    /\ resp.toolUsed = req.name

\* C14: in a chat turn where the model answers with a message that has no
\* function call, the response is that message's text with tool_used null; no
\* client method is called, no request is issued and there is no second model
\* call.
C14_NoFunctionCallAnswersDirectly ==
  (pc = "done" /\ req.site = "chat" /\ resp.choice = "text") =>
    /\ ~resp.isError
    /\ resp.code = 200
    /\ resp.text = Msg("${choice.message.content}")
    /\ resp.toolUsed = ""
    /\ resp.fnResult = NoFmt
    /\ calls = <<>>
    /\ reqs = <<>>
    /\ resp.modelCalls = 1
    /\ resp.events = <<"model1", "respond">>

C14_Witness ==
  /\ pc = "done"
  /\ req.site = "chat"
  /\ resp.choice = "text"
  /\ resp.text = Msg("${choice.message.content}")
  /\ resp.toolUsed = ""
  /\ resp.modelCalls = 1

\* C15: an invocation of a registered tool that is not rejected calls exactly
\* one client method, once; an invocation that omits a required parameter,
\* is rejected as missing an argument, or names an unknown tool calls none.
C15_ExactlyOneClientCall ==
  NamesTool =>
    /\ Len(calls) <= 1
    /\ (req.name \in ToolNames /\ ~OmitsRequired /\ resp.err.kind # "missing_argument")
         => Len(calls) = 1
    /\ (OmitsRequired \/ resp.err.kind = "missing_argument" \/ req.name \notin ToolNames)
         => calls = <<>>

\* The client returned a list in which some record lacks its nested fields.
ListLacksNested ==
  /\ NamesTool
  /\ ret.ok
  /\ ret.val.shape = "list"
  /\ \E i \in DOMAIN ret.val.rows : ~ret.val.rows[i].nested

\* C16: when a record of the payload lacks an optional or nested field, the
\* formatting still completes, no TypeError is reported, and the cells of that
\* record are rendered as the empty string.
C16_CellAccessorsTolerateMissingFields ==
  ListLacksNested =>
    /\ Formatted # NoFmt
    /\ resp.err.kind # "type_error"
    /\ Formatted.kind = "table" =>
         \A i \in DOMAIN ret.val.rows : ~ret.val.rows[i].nested => Formatted.cells[i] = ""

\* The call site has a list template for the tool.
HasListTemplate ==
  CASE req.site = "mcp" -> req.name \in DOMAIN McpListTemplate
    [] req.site = "http" -> req.name \in DOMAIN HttpListTemplate
    [] req.site = "chat" -> req.name \in DOMAIN ChatListTemplate
    [] OTHER -> FALSE

\* C17: for a list payload of n > 0 records the formatted output is a table
\* whose header carries n and which has exactly n rows, the i-th row rendering
\* the i-th record the backend returned.
C17_RowsFollowBackendOrder ==
  (/\ NamesTool
   /\ HasListTemplate
   /\ ret.ok
   /\ ret.val.shape = "list"
   /\ Len(ret.val.rows) > 0)
    => /\ Formatted.kind = "table"
       /\ Formatted.count = Len(ret.val.rows)
       /\ Len(Formatted.rows) = Len(ret.val.rows)
       /\ \A i \in DOMAIN ret.val.rows : Formatted.rows[i] = ret.val.rows[i].id
       /\ ret.val.rows = reqs[Len(reqs)].answer.rows

\* The tools that change a work item, and the optional argument each
\* confirmation shows on a line of its own.
MutationTools == {"create_work_item", "update_work_item", "assign_work_item"}

OptionalLine(name) ==
  IF name = "create_work_item"
    THEN [param |-> "description", label |-> "**Description**: "]
    ELSE [param |-> "comment", label |-> "**Comment**: "]

\* The success line of each confirmation, with the id the backend echoed.
SuccessLine(name, args) ==
  CASE name = "create_work_item" -> "[OK] Work item created successfully!"
    [] name = "update_work_item" -> "[OK] Work item ${workItem.id} updated successfully!"
    [] OTHER -> "[OK] Work item ${workItem.id} assigned to " \o Show(args, "assignee")
                  \o " successfully!"

Confirmation == NamesTool /\ req.name \in MutationTools /\ Formatted.kind = "block"

\* C18: a mutation confirmation opens with the success line; its comment (or
\* description) line is present exactly when that argument was supplied, and
\* it has no empty line standing in for an argument that was not supplied.
C18_ConfirmationLines ==
  Confirmation =>
    LET o == OptionalLine(req.name)
        lines == Formatted.lines
    IN /\ lines[1] = SuccessLine(req.name, req.args)
       /\ (\E i \in DOMAIN lines : lines[i] = o.label \o Show(req.args, o.param))
            <=> Arg(req.args, o.param) # "undefined"
       /\ Arg(req.args, o.param) = "undefined" => \A i \in DOMAIN lines : lines[i] # ""

\* The position of parameter p among the arguments of the client call.
ArgvOf(site, name) ==
  CASE site = "mcp" -> McpSwitch[name].argv
    [] site = "http" -> HttpSwitch[name].argv
    [] OTHER -> ChatSwitch[name].argv

\* The default the registry declares for parameter p of a tool: the schema's
\* `default`, or the configured project for `project`; "" when it declares none.
DeclaredDefault(name, p) ==
  LET d == (CHOOSE q \in Range(FindTool(name).properties) : q.name = p).dflt
  IN IF d # "" THEN "default:" \o d
     ELSE IF p = "project" THEN "config:project" ELSE ""

\* C19: for every optional parameter of the invoked tool, the client method
\* works with the caller's value when one was supplied, and with the declared
\* default when the parameter is absent and a default is declared.
C19_OptionalArgumentResolution ==
  (NamesTool /\ req.name \in ToolNames /\ calls # <<>>) =>
    LET argv == ArgvOf(req.site, req.name)
    IN \A i \in DOMAIN argv :
         LET p == argv[i].param
             v == Arg(req.args, p)
         IN (p \in PropNames(req.name) \ Required(req.name)) =>
              /\ v # "undefined" => calls[1].used[i] = v
              /\ (v = "undefined" /\ DeclaredDefault(req.name, p) # "")
                   => calls[1].used[i] = DeclaredDefault(req.name, p)

\* The call site's formatting chain has no branch for the tool.
NoTemplate ==
  /\ NamesTool
  /\ req.name \in ToolNames
  /\ \/ req.site = "http" /\ req.name \notin (DOMAIN HttpListTemplate \cup HttpBlockNames)
     \/ req.site = "chat" /\ req.name \notin (DOMAIN ChatListTemplate \cup ChatBlockNames)

\* C20: for a tool without a template, whatever payload the client returned is
\* rendered as its JSON (every record, in order) and formatting raises no error.
C20_JsonFallbackNeverFails ==
  (NoTemplate /\ ret.ok) =>
    /\ Formatted.kind = "json"
    /\ Formatted.shape = ret.val.shape
    /\ Formatted.rows = [i \in DOMAIN ret.val.rows |-> ret.val.rows[i].id]
    /\ resp.err.kind # "type_error"

C20_Witness ==
  /\ NoTemplate
  /\ req.site = "http"
  /\ req.name = "list_areas"
  /\ ret.ok
  /\ ret.val.rows = <<Rec(9), Bare(7)>>
  /\ resp.text.kind = "json"
  /\ resp.text.rows = <<9, 7>>
  /\ ~resp.isError


\* ---------------------------------------------------------------------------
\* Start-up, sessions and concurrent invocations
\* ---------------------------------------------------------------------------
\* C22: configuration errors are fatal at startup and only there.  With a base
\* URL that is absent or has no organization segment the process never gets
\* past loading, so no invocation is served; and once loading succeeded no
\* invocation on any call site (the HTTP and chat handlers construct a client of
\* their own per request) answers with a configuration error.
C22_ConfigurationErrorsOnlyAtStartup ==
  /\ env.orgUrl # "valid" => pc \in {"boot", "crashed"} /\ req = NoReq
  /\ pc \in {"idle", "done"} => Construct(env).ok
  /\ pc = "done" => resp.err.kind # "configuration"

\* A request served by a handler that constructed its own client and called it.
C22_Witness ==
  /\ pc = "done"
  /\ req.site \in {"http", "chat"}
  /\ calls # <<>>
  /\ env.orgUrl = "valid"

\* The list-style client methods that query an optionally enabled feature.
OptionalFeatureMethods ==
  {"getTestPlans", "getTestSuites", "getReleases", "getReleaseDefinitions", "getWikis",
   "getDashboards", "getPipelines", "getBoards", "getTeamIterations",
   "getIterationCapacities", "getVariableGroups", "getServiceEndpoints", "getTags"}

\* C26: the 404-as-empty policy is applied uniformly: every list-style client
\* method that queries an optionally enabled feature returns the empty sequence
\* when the backend answers 404.
C26_Optional404AppliedUniformly ==
  (/\ pc = "done"
   /\ Len(calls) = 1
   /\ calls[1].method \in OptionalFeatureMethods
   /\ Len(reqs) = 1
   /\ reqs[1].status = 404)
  => ret.ok /\ ret.val = List(<<>>)

\* The client method the sibling tool of a links/relations tool calls.
Sibling(method) ==
  IF method = "getWorkItemLinks" THEN "getWorkItemRelations" ELSE "getWorkItemLinks"

\* C27: getWorkItemRelations is the same operation as getWorkItemLinks: given
\* the same (id, project) and the same backend response, error responses
\* included, both return the same relation list or both fail.
C27_RelationsSameAsLinks ==
  (/\ pc = "done"
   /\ Len(calls) = 1
   /\ calls[1].method \in {"getWorkItemLinks", "getWorkItemRelations"}
   /\ Len(reqs) = 1)
  => LET other == ClientCall(Sibling(calls[1].method), calls[1].passed, reqs[1].answer, Unused)
     IN /\ other.ok = ret.ok
        /\ other.val = ret.val
        /\ Resolve(Sibling(calls[1].method), calls[1].passed) = calls[1].used

\* The paths on which getWorkItems is reached with no id: an empty `ids`
\* argument, a WIQL query without references, a saved query whose result holds
\* an empty reference list.
ReachedWithNoIds ==
  /\ Len(calls) = 1
  /\ \/ calls[1].method = "getWorkItems" /\ calls[1].passed[1] = "empty"
     \/ /\ calls[1].method = "queryWorkItems"
        /\ Len(reqs) >= 1
        /\ reqs[1].status = 200
        /\ (~reqs[1].answer.has \/ reqs[1].answer.rows = <<>>)
     \/ /\ calls[1].method = "getQueryResults"
        /\ Len(reqs) >= 1
        /\ reqs[1].status = 200
        /\ reqs[1].answer.has
        /\ reqs[1].answer.rows = <<>>

\* C28: no batch fetch of work items is ever issued with an empty id list; every
\* path that reaches getWorkItems without ids returns the empty sequence
\* without that request.
C28_NoEmptyBatchFetch ==
  pc = "done" =>
    /\ \A i \in DOMAIN reqs : reqs[i].endpoint = "getWorkItems" => Len(reqs[i].ids) > 0
    /\ ReachedWithNoIds =>
         /\ ret.ok
         /\ ret.val = List(<<>>)
         /\ \A i \in DOMAIN reqs : reqs[i].endpoint # "getWorkItems"

\* A saved query whose result is an empty list of references was run.
C28_Witness ==
  /\ pc = "done"
  /\ ReachedWithNoIds
  /\ calls[1].method = "getQueryResults"
  /\ Len(reqs) = 1
  /\ ret.val = List(<<>>)

\* Number of descriptors of the registry (README, "Available Tools (51 Total)").
RegistrySize == 51

WriteTools == MutationTools \cup {"create_pull_request"}

\* C21: only the mutation tools can change backend state: as long as no
\* mutation tool was invoked in the session, whatever the other tools were
\* called with, the backend's resources are unchanged; and an invocation of
\* another tool issues no write request at all.
C21_OnlyMutationToolsWrite ==
  /\ ~mutated => store = 0
  /\ pc = "done" /\ req.name \notin WriteTools => \A i \in DOMAIN reqs : ~IsWrite(reqs[i])

\* A session that changed the backend, then served a tool that issues a POST
\* query.
C21_Witness ==
  /\ store > 0
  /\ pc = "done"
  /\ req.name \notin WriteTools
  /\ \E i \in DOMAIN reqs : reqs[i].verb = "POST" /\ reqs[i].status = 200

\* C23: the tool catalog query (MCP ListTools and GET /api/tools) returns the
\* complete registry, all 51 descriptors in registry order and unfiltered,
\* without calling the client; and the registry is the same after any sequence
\* of catalog queries, tool invocations and chat turns.
C23_CatalogIsTheWholeRegistry ==
  /\ registry = tools
  /\ Len(registry) = RegistrySize
  /\ pc = "done" /\ req.name = "tools/list" =>
       /\ listed = tools
       /\ calls = <<>>
       /\ reqs = <<>>
       /\ ~resp.isError

\* A catalog query on HTTP after a mutation tool changed the backend.
C23_Witness ==
  /\ pc = "done"
  /\ req.name = "tools/list"
  /\ req.site = "http"
  /\ store > 0
  /\ Len(listed) = RegistrySize

C29_OneRequestInFlight ==
  /\ Cardinality(Outstanding) <= 1
  /\ loading <=> Outstanding # {}

\* The messages send k produced in the conversation object `c`.
MessagesOf(c, k) == {i \in DOMAIN c.messages : c.messages[i].send = k}
RepliesOf(c, k) == {i \in MessagesOf(c, k) : c.messages[i].role # "user"}

\* C30: every send appends exactly one user message and, once its request has
\* completed, exactly one assistant message (success) or one system message
\* (failure) to the conversation it was sent from, whatever conversation the
\* user has switched to or created since; the messages of every other
\* conversation are not changed.  (A conversation that was deleted in the
\* meantime is not required to receive anything.)
C30_RepliesReachTheirConversation ==
  \A k \in DOMAIN sends : \A i \in DOMAIN conversations :
    LET c == conversations[i]
    IN IF c.uid = sends[k].origin
         THEN /\ Cardinality(MessagesOf(c, k) \ RepliesOf(c, k)) = 1
              /\ Cardinality(RepliesOf(c, k)) = IF k \in Outstanding THEN 0 ELSE 1
              /\ \A m \in RepliesOf(c, k) :
                   c.messages[m].role = IF sends[k].state = "succeeded" THEN "assistant" ELSE "system"
         ELSE MessagesOf(c, k) = {}
====
